---- MODULE Spec2Model ----
(***************************************************************************)
(* Model of the WhoSaidThat game session state machine                     *)
(* (lib/game-state-manager.ts), its Redis store (lib/redis.ts) and the     *)
(* payloads the API routes expose (lib/game-events.ts, app/api/game/...).  *)
(*                                                                         *)
(* Strings that the code inspects character by character (nicknames,       *)
(* response texts, prompts) are sequences of one-character strings.        *)
(* crypto.randomUUID() is a token drawn from a counter of fresh ids.       *)
(***************************************************************************)
EXTENDS Integers, Sequences, FiniteSets, TLC

VARIABLES
    store,      \* Redis: game code -> stored session, or Null
    nextId,     \* source of fresh tokens for crypto.randomUUID()
    created,    \* number of games created so far
    last,       \* outcome of the request that completed last
    inflight,   \* requests between their getGame and their write-back
    acked,      \* submissions and joins answered with success so far
    started,    \* number of overlapping requests started so far
    now,        \* the clock (seconds in TtlSpec, milliseconds in RateSpec)
    expiry,     \* Redis: game code -> time its key expires (0: no key)
    rateLimitStore, \* rate-limit.ts: key -> entry, for the keys that have one
    calls       \* the checkRateLimit calls made so far, with their answers

vars == <<store, nextId, created, last, inflight, acked, started, now, expiry, rateLimitStore, calls>>

(***************************************************************************)
(* Bounds of the model                                                     *)
(***************************************************************************)
MaxPlayers == 2         \* joins are attempted while fewer players exist
MaxRounds == 2          \* rounds are started while fewer rounds exist
RematchPlayers == 1     \* a further round is started at tables of at most this size
MaxGames == 1           \* games are created while fewer were created
PromptPoolSize == 3     \* number of prompts in PROMPTS
MaxInFlight == 2        \* overlapping requests in ConcSpec
MaxRequests == 5        \* requests started in ConcSpec

(***************************************************************************)
(* Program constants                                                       *)
(***************************************************************************)
MaxPlayersPerGame == 8
MinNicknameLength == 3
MaxNicknameLength == 20

Null == [null |-> TRUE]

Codes == {"X"}

Phases == {"lobby", "responding", "guessing", "reveal"}

NoError == "none"

NoCode == ""        \* undefined game code

(***************************************************************************)
(* Characters and strings                                                  *)
(***************************************************************************)
Upper == {"A", "B", "C"}
Lower == {"a", "b", "c", "n", "o", "t", "y", "h", "i", "q"}
Digits == {"1"}

\* String.prototype.toLowerCase on one character
LowerChar(c) ==
    CASE c = "A" -> "a"
      [] c = "B" -> "b"
      [] c = "C" -> "c"
      [] OTHER -> c

toLowerCase(s) == [i \in DOMAIN s |-> LowerChar(s[i])]

RECURSIVE trimStart(_)
trimStart(s) ==
    IF s # <<>> /\ Head(s) = " " THEN trimStart(Tail(s)) ELSE s

RECURSIVE trimEnd(_)
trimEnd(s) ==
    IF s # <<>> /\ s[Len(s)] = " " THEN trimEnd(SubSeq(s, 1, Len(s) - 1)) ELSE s

\* String.prototype.trim
trim(s) == trimEnd(trimStart(s))

\* /^[a-zA-Z0-9 ]+$/
validPattern(s) ==
    /\ Len(s) > 0
    /\ \A i \in DOMAIN s : s[i] \in Upper \cup Lower \cup Digits \cup {" "}

validateNickname(nickname) ==
    IF Len(nickname) = 0 \/ Len(trim(nickname)) = 0 THEN FALSE
    ELSE IF Len(trim(nickname)) < MinNicknameLength
            \/ Len(trim(nickname)) > MaxNicknameLength THEN FALSE
    ELSE IF ~validPattern(nickname) THEN FALSE
    ELSE TRUE

(***************************************************************************)
(* Session data                                                            *)
(***************************************************************************)
Player(id, nickname, isHost, joinedAt) ==
    [id |-> id, nickname |-> nickname, isHost |-> isHost,
     isConnected |-> TRUE, joinedAt |-> joinedAt]

Response(id, playerId, text) ==
    [id |-> id, playerId |-> playerId, text |-> text]

PlayerGuesses(playerId, guesses) ==
    [playerId |-> playerId, guesses |-> guesses]

\* Map.prototype.set on a map held as a function
MapSet(map, key, value) ==
    [k \in DOMAIN map \cup {key} |-> IF k = key THEN value ELSE map[k]]

Round(roundNumber, prompt) ==
    [roundNumber |-> roundNumber, prompt |-> prompt,
     responses |-> <<>>, guesses |-> <<>>, results |-> Null]

GameSession(code, hostId, host) ==
    [code |-> code, hostId |-> hostId, players |-> <<host>>,
     currentRound |-> 0, phase |-> "lobby", rounds |-> <<>>,
     usedPrompts |-> <<>>]

\* Map.prototype.has / get on session.players
PlayerIds(s) == {s.players[i].id : i \in DOMAIN s.players}
HasPlayer(s, id) == id \in PlayerIds(s)
PlayerIndex(s, id) == CHOOSE i \in DOMAIN s.players : s.players[i].id = id
GetPlayer(s, id) == s.players[PlayerIndex(s, id)]

\* session.rounds[session.currentRound], undefined when out of range
HasCurrentRound(s) == s.currentRound + 1 \in DOMAIN s.rounds
CurrentRound(s) == s.rounds[s.currentRound + 1]

ResponseIds(round) == {round.responses[i].id : i \in DOMAIN round.responses}
Responders(round) == {round.responses[i].playerId : i \in DOMAIN round.responses}
Guessers(round) == DOMAIN round.guesses

(***************************************************************************)
(* Results of the manager's operations: the error thrown (NoError when the *)
(* call returned), the session object as the call left it, and whether the *)
(* call reached updateGame(session).                                       *)
(***************************************************************************)
Fail(g, msg) ==
    [error |-> msg, session |-> g, saved |-> FALSE,
     newHost |-> Null, phaseChanged |-> FALSE]

Ok(s) ==
    [error |-> NoError, session |-> s, saved |-> TRUE,
     newHost |-> Null, phaseChanged |-> FALSE]

(***************************************************************************)
(* GameStateManager.joinGame                                                *)
(***************************************************************************)
\* variant: the nicknames are compared as they are written
NicknameTakenExact(s, nickname) ==
    \E i \in DOMAIN s.players : s.players[i].nickname = nickname

NicknameTaken(s, nickname) ==
    \E i \in DOMAIN s.players :
        toLowerCase(s.players[i].nickname) = toLowerCase(nickname)

\* variant: the new player is entered as a host
joinGameAsHost(g, nickname, playerId, joinedAt) ==
    IF ~validateNickname(nickname) THEN Fail(g, "Invalid nickname")
    ELSE IF g = Null THEN Fail(g, "Game not found")
    ELSE IF g.phase # "lobby" THEN Fail(g, "Cannot join game in progress")
    ELSE IF Len(g.players) >= MaxPlayersPerGame THEN Fail(g, "Game is full")
    ELSE IF NicknameTaken(g, nickname) THEN Fail(g, "Nickname already taken")
    ELSE Ok([g EXCEPT !.players =
                Append(@, Player(playerId, nickname, TRUE, joinedAt))])

\* variant: the table is full only above the cap
joinGameOffByOne(g, nickname, playerId, joinedAt) ==
    IF ~validateNickname(nickname) THEN Fail(g, "Invalid nickname")
    ELSE IF g = Null THEN Fail(g, "Game not found")
    ELSE IF g.phase # "lobby" THEN Fail(g, "Cannot join game in progress")
    ELSE IF Len(g.players) > MaxPlayersPerGame THEN Fail(g, "Game is full")
    ELSE IF NicknameTaken(g, nickname) THEN Fail(g, "Nickname already taken")
    ELSE Ok([g EXCEPT !.players =
                Append(@, Player(playerId, nickname, FALSE, joinedAt))])

joinGame(g, nickname, playerId, joinedAt) ==
    IF ~validateNickname(nickname) THEN Fail(g, "Invalid nickname")
    ELSE IF g = Null THEN Fail(g, "Game not found")
    ELSE IF g.phase # "lobby" THEN Fail(g, "Cannot join game in progress")
    ELSE IF Len(g.players) >= MaxPlayersPerGame THEN Fail(g, "Game is full")
    ELSE IF NicknameTaken(g, nickname) THEN Fail(g, "Nickname already taken")
    ELSE Ok([g EXCEPT !.players =
                Append(@, Player(playerId, nickname, FALSE, joinedAt))])

(***************************************************************************)
(* GameStateManager.submitResponse                                          *)
(***************************************************************************)
SetRound(s, round) == [s EXCEPT !.rounds[s.currentRound + 1] = round]

\* variant: the responses are counted against the connected players
submitResponseCountsConnected(g, playerId, responseText, responseId) ==
    IF g = Null THEN Fail(g, "Game not found")
    ELSE IF ~HasPlayer(g, playerId) THEN Fail(g, "Player not found")
    ELSE IF g.phase # "responding" THEN Fail(g, "Not in responding phase")
    ELSE IF ~HasCurrentRound(g) THEN Fail(g, "No active round")
    ELSE IF playerId \in Responders(CurrentRound(g))
        THEN Fail(g, "Response already submitted")
    ELSE IF Len(responseText) = 0 \/ Len(trim(responseText)) = 0
        THEN Fail(g, "Response cannot be empty")
    ELSE
        LET round == [CurrentRound(g) EXCEPT !.responses =
                        Append(@, Response(responseId, playerId, trim(responseText)))]
            s1 == SetRound(g, round)
        IN  IF Len(round.responses) =
                Len(SelectSeq(s1.players, LAMBDA p : p.isConnected))
            THEN Ok([s1 EXCEPT !.phase = "guessing"])
            ELSE Ok(s1)

\* variant: a player may respond again
submitResponseTwice(g, playerId, responseText, responseId) ==
    IF g = Null THEN Fail(g, "Game not found")
    ELSE IF ~HasPlayer(g, playerId) THEN Fail(g, "Player not found")
    ELSE IF g.phase # "responding" THEN Fail(g, "Not in responding phase")
    ELSE IF ~HasCurrentRound(g) THEN Fail(g, "No active round")
    ELSE IF Len(responseText) = 0 \/ Len(trim(responseText)) = 0
        THEN Fail(g, "Response cannot be empty")
    ELSE
        LET round == [CurrentRound(g) EXCEPT !.responses =
                        Append(@, Response(responseId, playerId, trim(responseText)))]
            s1 == SetRound(g, round)
        IN  IF Len(round.responses) = Len(s1.players)
            THEN Ok([s1 EXCEPT !.phase = "guessing"])
            ELSE Ok(s1)

\* variant: the phase is not checked
submitResponseAnyPhase(g, playerId, responseText, responseId) ==
    IF g = Null THEN Fail(g, "Game not found")
    ELSE IF ~HasPlayer(g, playerId) THEN Fail(g, "Player not found")
    ELSE IF ~HasCurrentRound(g) THEN Fail(g, "No active round")
    ELSE IF playerId \in Responders(CurrentRound(g))
        THEN Fail(g, "Response already submitted")
    ELSE IF Len(responseText) = 0 \/ Len(trim(responseText)) = 0
        THEN Fail(g, "Response cannot be empty")
    ELSE
        LET round == [CurrentRound(g) EXCEPT !.responses =
                        Append(@, Response(responseId, playerId, trim(responseText)))]
            s1 == SetRound(g, round)
        IN  IF Len(round.responses) = Len(s1.players)
            THEN Ok([s1 EXCEPT !.phase = "guessing"])
            ELSE Ok(s1)

\* variant: completion is tested against the connected players
submitResponseConnectedOnly(g, playerId, responseText, responseId) ==
    IF g = Null THEN Fail(g, "Game not found")
    ELSE IF ~HasPlayer(g, playerId) THEN Fail(g, "Player not found")
    ELSE IF g.phase # "responding" THEN Fail(g, "Not in responding phase")
    ELSE IF ~HasCurrentRound(g) THEN Fail(g, "No active round")
    ELSE IF playerId \in Responders(CurrentRound(g))
        THEN Fail(g, "Response already submitted")
    ELSE IF Len(responseText) = 0 \/ Len(trim(responseText)) = 0
        THEN Fail(g, "Response cannot be empty")
    ELSE
        LET round == [CurrentRound(g) EXCEPT !.responses =
                        Append(@, Response(responseId, playerId, trim(responseText)))]
            s1 == SetRound(g, round)
        IN  IF Len(round.responses) =
                    Len(SelectSeq(s1.players, LAMBDA p : p.isConnected))
            THEN Ok([s1 EXCEPT !.phase = "guessing"])
            ELSE Ok(s1)

\* variant: the duplicate check comes before the phase check
submitResponseDuplicateFirst(g, playerId, responseText, responseId) ==
    IF g = Null THEN Fail(g, "Game not found")
    ELSE IF ~HasPlayer(g, playerId) THEN Fail(g, "Player not found")
    ELSE IF HasCurrentRound(g) /\ playerId \in Responders(CurrentRound(g))
        THEN Fail(g, "Response already submitted")
    ELSE IF g.phase # "responding" THEN Fail(g, "Not in responding phase")
    ELSE IF ~HasCurrentRound(g) THEN Fail(g, "No active round")
    ELSE IF Len(responseText) = 0 \/ Len(trim(responseText)) = 0
        THEN Fail(g, "Response cannot be empty")
    ELSE
        LET round == [CurrentRound(g) EXCEPT !.responses =
                        Append(@, Response(responseId, playerId, trim(responseText)))]
            s1 == SetRound(g, round)
        IN  IF Len(round.responses) = Len(s1.players)
            THEN Ok([s1 EXCEPT !.phase = "guessing"])
            ELSE Ok(s1)

submitResponse(g, playerId, responseText, responseId) ==
    IF g = Null THEN Fail(g, "Game not found")
    ELSE IF ~HasPlayer(g, playerId) THEN Fail(g, "Player not found")
    ELSE IF g.phase # "responding" THEN Fail(g, "Not in responding phase")
    ELSE IF ~HasCurrentRound(g) THEN Fail(g, "No active round")
    ELSE IF playerId \in Responders(CurrentRound(g))
        THEN Fail(g, "Response already submitted")
    ELSE IF Len(responseText) = 0 \/ Len(trim(responseText)) = 0
        THEN Fail(g, "Response cannot be empty")
    ELSE
        LET round == [CurrentRound(g) EXCEPT !.responses =
                        Append(@, Response(responseId, playerId, trim(responseText)))]
            s1 == SetRound(g, round)
        IN  IF Len(round.responses) = Len(s1.players)
            THEN Ok([s1 EXCEPT !.phase = "guessing"])
            ELSE Ok(s1)

(***************************************************************************)
(* GameStateManager.calculateResults                                        *)
(***************************************************************************)
\* round.guesses.entries() as a list; the entries are visited in ascending
\* order of the guesser's id (the results do not depend on the order)
RECURSIVE Entries(_)
Entries(map) ==
    IF DOMAIN map = {} THEN <<>>
    ELSE LET k == CHOOSE x \in DOMAIN map : \A y \in DOMAIN map : x <= y
         IN  <<map[k]>> \o Entries([y \in DOMAIN map \ {k} |-> map[y]])

\* variant: a penalty is counted for a guess that names the author
RECURSIVE CollectGuessesCountsCorrect(_, _, _, _)
CollectGuessesCountsCorrect(response, guesses, k, acc) ==
    IF k > Len(guesses) THEN acc
    ELSE
        LET guessingPlayerId == guesses[k].playerId
            map == guesses[k].guesses
        IN  IF response.id \in DOMAIN map
            THEN LET guess == map[response.id]
                     penalties ==
                        IF guess = response.playerId
                        THEN MapSet(acc.penalties, guessingPlayerId,
                                    (IF guessingPlayerId \in DOMAIN acc.penalties
                                     THEN acc.penalties[guessingPlayerId] ELSE 0) + 1)
                        ELSE acc.penalties
                 IN  CollectGuessesCountsCorrect(response, guesses, k + 1,
                        [guessedBy |-> MapSet(acc.guessedBy, guessingPlayerId, guess),
                         penalties |-> penalties])
            ELSE CollectGuessesCountsCorrect(response, guesses, k + 1, acc)

\* the inner loop over round.guesses.entries() for one response
RECURSIVE CollectGuesses(_, _, _, _)
CollectGuesses(response, guesses, k, acc) ==
    IF k > Len(guesses) THEN acc
    ELSE
        LET guessingPlayerId == guesses[k].playerId
            map == guesses[k].guesses
        IN  IF response.id \in DOMAIN map
            THEN LET guess == map[response.id]
                     penalties ==
                        IF guess # response.playerId
                        THEN MapSet(acc.penalties, guessingPlayerId,
                                    (IF guessingPlayerId \in DOMAIN acc.penalties
                                     THEN acc.penalties[guessingPlayerId] ELSE 0) + 1)
                        ELSE acc.penalties
                 IN  CollectGuesses(response, guesses, k + 1,
                        [guessedBy |-> MapSet(acc.guessedBy, guessingPlayerId, guess),
                         penalties |-> penalties])
            ELSE CollectGuesses(response, guesses, k + 1, acc)

\* the outer map over round.responses.values()
RECURSIVE BuildResults(_, _, _, _)
BuildResults(s, round, i, acc) ==
    IF i > Len(round.responses) THEN acc
    ELSE
        LET response == round.responses[i]
            inner == CollectGuesses(response, Entries(round.guesses), 1,
                        [guessedBy |-> <<>>, penalties |-> acc.penalties])
            entry == [responseId |-> response.id, text |-> response.text,
                      actualAuthor |-> GetPlayer(s, response.playerId),
                      guessedBy |-> inner.guessedBy]
        IN  BuildResults(s, round, i + 1,
                [responses |-> Append(acc.responses, entry),
                 penalties |-> inner.penalties])

calculateResults(s, round) ==
    BuildResults(s, round, 1,
        [responses |-> <<>>, penalties |-> [p \in PlayerIds(s) |-> 0]])

(***************************************************************************)
(* GameStateManager.submitGuesses                                           *)
(***************************************************************************)
\* variant: the guessed player ids are not checked
submitGuessesAnyPlayerId(g, playerId, guesses) ==
    IF g = Null THEN Fail(g, "Game not found")
    ELSE IF ~HasPlayer(g, playerId) THEN Fail(g, "Player not found")
    ELSE IF g.phase # "guessing" THEN Fail(g, "Not in guessing phase")
    ELSE IF ~HasCurrentRound(g) THEN Fail(g, "No active round")
    ELSE IF playerId \in Guessers(CurrentRound(g))
        THEN Fail(g, "Guesses already submitted")
    ELSE IF Cardinality(DOMAIN guesses) # Len(CurrentRound(g).responses)
        THEN Fail(g, "Must guess for all responses")
    ELSE IF \E responseId \in DOMAIN guesses :
                responseId \notin ResponseIds(CurrentRound(g))
        THEN Fail(g, "Invalid response ID")
    ELSE
        LET round == [CurrentRound(g) EXCEPT !.guesses =
                        MapSet(@, playerId, PlayerGuesses(playerId, guesses))]
            s1 == SetRound(g, round)
        IN  IF Cardinality(DOMAIN round.guesses) = Len(s1.players)
            THEN Ok([SetRound(s1, [round EXCEPT !.results = calculateResults(s1, round)])
                        EXCEPT !.phase = "reveal"])
            ELSE Ok(s1)

\* variant: the guessed player ids are checked after the guesses are saved
submitGuessesLateCheck(g, playerId, guesses) ==
    IF g = Null THEN Fail(g, "Game not found")
    ELSE IF ~HasPlayer(g, playerId) THEN Fail(g, "Player not found")
    ELSE IF g.phase # "guessing" THEN Fail(g, "Not in guessing phase")
    ELSE IF ~HasCurrentRound(g) THEN Fail(g, "No active round")
    ELSE IF playerId \in Guessers(CurrentRound(g))
        THEN Fail(g, "Guesses already submitted")
    ELSE IF Cardinality(DOMAIN guesses) # Len(CurrentRound(g).responses)
        THEN Fail(g, "Must guess for all responses")
    ELSE IF \E responseId \in DOMAIN guesses :
                responseId \notin ResponseIds(CurrentRound(g))
        THEN Fail(g, "Invalid response ID")
    ELSE
        LET round == [CurrentRound(g) EXCEPT !.guesses =
                        MapSet(@, playerId, PlayerGuesses(playerId, guesses))]
            s1 == SetRound(g, round)
        IN  IF \E responseId \in DOMAIN guesses : ~HasPlayer(g, guesses[responseId])
            THEN [Fail(s1, "Invalid player ID in guess") EXCEPT !.saved = TRUE]
            ELSE IF Cardinality(DOMAIN round.guesses) = Len(s1.players)
            THEN Ok([SetRound(s1, [round EXCEPT !.results = calculateResults(s1, round)])
                        EXCEPT !.phase = "reveal"])
            ELSE Ok(s1)

\* variant: completion is tested against the connected players
submitGuessesConnectedOnly(g, playerId, guesses) ==
    IF g = Null THEN Fail(g, "Game not found")
    ELSE IF ~HasPlayer(g, playerId) THEN Fail(g, "Player not found")
    ELSE IF g.phase # "guessing" THEN Fail(g, "Not in guessing phase")
    ELSE IF ~HasCurrentRound(g) THEN Fail(g, "No active round")
    ELSE IF playerId \in Guessers(CurrentRound(g))
        THEN Fail(g, "Guesses already submitted")
    ELSE IF Cardinality(DOMAIN guesses) # Len(CurrentRound(g).responses)
        THEN Fail(g, "Must guess for all responses")
    ELSE IF \E responseId \in DOMAIN guesses :
                responseId \notin ResponseIds(CurrentRound(g))
        THEN Fail(g, "Invalid response ID")
    ELSE IF \E responseId \in DOMAIN guesses : ~HasPlayer(g, guesses[responseId])
        THEN Fail(g, "Invalid player ID in guess")
    ELSE
        LET round == [CurrentRound(g) EXCEPT !.guesses =
                        MapSet(@, playerId, PlayerGuesses(playerId, guesses))]
            s1 == SetRound(g, round)
        IN  IF Cardinality(DOMAIN round.guesses) =
                    Len(SelectSeq(s1.players, LAMBDA p : p.isConnected))
            THEN Ok([SetRound(s1, [round EXCEPT !.results = calculateResults(s1, round)])
                        EXCEPT !.phase = "reveal"])
            ELSE Ok(s1)

submitGuesses(g, playerId, guesses) ==
    IF g = Null THEN Fail(g, "Game not found")
    ELSE IF ~HasPlayer(g, playerId) THEN Fail(g, "Player not found")
    ELSE IF g.phase # "guessing" THEN Fail(g, "Not in guessing phase")
    ELSE IF ~HasCurrentRound(g) THEN Fail(g, "No active round")
    ELSE IF playerId \in Guessers(CurrentRound(g))
        THEN Fail(g, "Guesses already submitted")
    ELSE IF Cardinality(DOMAIN guesses) # Len(CurrentRound(g).responses)
        THEN Fail(g, "Must guess for all responses")
    ELSE IF \E responseId \in DOMAIN guesses :
                responseId \notin ResponseIds(CurrentRound(g))
        THEN Fail(g, "Invalid response ID")
    ELSE IF \E responseId \in DOMAIN guesses : ~HasPlayer(g, guesses[responseId])
        THEN Fail(g, "Invalid player ID in guess")
    ELSE
        LET round == [CurrentRound(g) EXCEPT !.guesses =
                        MapSet(@, playerId, PlayerGuesses(playerId, guesses))]
            s1 == SetRound(g, round)
        IN  IF Cardinality(DOMAIN round.guesses) = Len(s1.players)
            THEN Ok([SetRound(s1, [round EXCEPT !.results = calculateResults(s1, round)])
                        EXCEPT !.phase = "reveal"])
            ELSE Ok(s1)

(***************************************************************************)
(* lib/prompts.ts                                                          *)
(***************************************************************************)
PromptLetters == <<"a", "b", "c", "n", "o", "t", "y", "h">>

PROMPTS == [i \in 1..PromptPoolSize |-> <<PromptLetters[i]>>]

\* Math.random() is k / PromptPoolSize for a k in RandomDraws
RandomDraws == 0..(PromptPoolSize - 1)

Includes(seq, x) == \E i \in DOMAIN seq : seq[i] = x

\* variant: the draw is from the whole pool
selectRandomPromptFromAll(usedPrompts, k) ==
    LET randomIndex == (k * Len(PROMPTS)) \div PromptPoolSize
    IN  PROMPTS[randomIndex + 1]

selectRandomPrompt(usedPrompts, k) ==
    LET availablePrompts == SelectSeq(PROMPTS, LAMBDA prompt : ~Includes(usedPrompts, prompt))
        promptPool == IF Len(availablePrompts) > 0 THEN availablePrompts ELSE PROMPTS
        randomIndex == (k * Len(promptPool)) \div PromptPoolSize
    IN  promptPool[randomIndex + 1]

(***************************************************************************)
(* GameStateManager.startRound; prompt.given is FALSE for undefined        *)
(***************************************************************************)
\* variant: every player of the session may start a round
startRoundByAnyPlayer(g, hostId, prompt, k) ==
    IF g = Null THEN Fail(g, "Game not found")
    ELSE IF ~HasPlayer(g, hostId) THEN Fail(g, "Only host can start rounds")
    ELSE IF g.phase # "lobby" /\ g.phase # "reveal"
        THEN Fail(g, "Cannot start round in current phase")
    ELSE
        LET selectedPrompt ==
                IF prompt.given /\ Len(prompt.text) > 0 /\ Len(trim(prompt.text)) > 0
                THEN trim(prompt.text)
                ELSE selectRandomPrompt(g.usedPrompts, k)
            roundNumber == Len(g.rounds)
        IN  Ok([g EXCEPT !.rounds = Append(@, Round(roundNumber, selectedPrompt)),
                         !.currentRound = roundNumber,
                         !.phase = "responding",
                         !.usedPrompts = Append(@, selectedPrompt)])

\* variant: the new round takes the place of the round just revealed
startRoundReplacesRound(g, hostId, prompt, k) ==
    IF g = Null THEN Fail(g, "Game not found")
    ELSE IF g.hostId # hostId THEN Fail(g, "Only host can start rounds")
    ELSE IF g.phase # "lobby" /\ g.phase # "reveal"
        THEN Fail(g, "Cannot start round in current phase")
    ELSE
        LET selectedPrompt ==
                IF prompt.given /\ Len(prompt.text) > 0 /\ Len(trim(prompt.text)) > 0
                THEN trim(prompt.text)
                ELSE selectRandomPrompt(g.usedPrompts, k)
            kept == IF Len(g.rounds) = 0 THEN g.rounds
                    ELSE SubSeq(g.rounds, 1, Len(g.rounds) - 1)
            roundNumber == Len(kept)
        IN  Ok([g EXCEPT !.rounds = Append(kept, Round(roundNumber, selectedPrompt)),
                         !.currentRound = roundNumber,
                         !.phase = "responding",
                         !.usedPrompts = Append(@, selectedPrompt)])

startRound(g, hostId, prompt, k) ==
    IF g = Null THEN Fail(g, "Game not found")
    ELSE IF g.hostId # hostId THEN Fail(g, "Only host can start rounds")
    ELSE IF g.phase # "lobby" /\ g.phase # "reveal"
        THEN Fail(g, "Cannot start round in current phase")
    ELSE
        LET selectedPrompt ==
                IF prompt.given /\ Len(prompt.text) > 0 /\ Len(trim(prompt.text)) > 0
                THEN trim(prompt.text)
                ELSE selectRandomPrompt(g.usedPrompts, k)
            roundNumber == Len(g.rounds)
        IN  Ok([g EXCEPT !.rounds = Append(@, Round(roundNumber, selectedPrompt)),
                         !.currentRound = roundNumber,
                         !.phase = "responding",
                         !.usedPrompts = Append(@, selectedPrompt)])

(***************************************************************************)
(* GameStateManager.endGame: returns the session, updateGame is not called *)
(***************************************************************************)
endGame(g, hostId) ==
    IF g = Null THEN Fail(g, "Game not found")
    ELSE IF g.hostId # hostId THEN Fail(g, "Only host can end game")
    ELSE [Ok(g) EXCEPT !.saved = FALSE]

(***************************************************************************)
(* GameStateManager.handlePlayerDisconnect                                  *)
(***************************************************************************)
\* variant: the latest joiner comes first
RECURSIVE InsertByJoinedAtLatestFirst(_, _)
InsertByJoinedAtLatestFirst(sorted, p) ==
    IF sorted = <<>> THEN <<p>>
    ELSE IF sorted[Len(sorted)].joinedAt >= p.joinedAt THEN Append(sorted, p)
    ELSE Append(InsertByJoinedAtLatestFirst(SubSeq(sorted, 1, Len(sorted) - 1), p),
                sorted[Len(sorted)])

\* Array.prototype.sort by joinedAt (stable): insertion of p into a sorted list
RECURSIVE InsertByJoinedAt(_, _)
InsertByJoinedAt(sorted, p) ==
    IF sorted = <<>> THEN <<p>>
    ELSE IF sorted[Len(sorted)].joinedAt <= p.joinedAt THEN Append(sorted, p)
    ELSE Append(InsertByJoinedAt(SubSeq(sorted, 1, Len(sorted) - 1), p),
                sorted[Len(sorted)])

RECURSIVE SortByJoinedAt(_)
SortByJoinedAt(seq) ==
    IF seq = <<>> THEN <<>>
    ELSE InsertByJoinedAt(SortByJoinedAt(SubSeq(seq, 1, Len(seq) - 1)), seq[Len(seq)])

ConnectedPlayers(s) == SelectSeq(s.players, LAMBDA p : p.isConnected)
ConnectedIds(s) == {s.players[i].id : i \in {j \in DOMAIN s.players : s.players[j].isConnected}}

\* variant: the player who leaves keeps the host flag
TransferHostKeepsFlag(s, playerId) ==
    LET player == GetPlayer(s, playerId)
        connectedPlayers ==
            SortByJoinedAt(SelectSeq(s.players,
                LAMBDA p : p.id # playerId /\ p.isConnected))
    IN  IF player.isHost /\ s.hostId = playerId /\ Len(connectedPlayers) > 0
        THEN LET newHostId == connectedPlayers[1].id
                 s2 == [s EXCEPT !.players[PlayerIndex(s, newHostId)].isHost = TRUE,
                                 !.hostId = newHostId]
             IN  [session |-> s2, newHost |-> GetPlayer(s2, newHostId)]
        ELSE [session |-> s, newHost |-> Null]

\* variant: the new host is the earliest joiner, connected or not
TransferHostToAnyPlayer(s, playerId) ==
    LET player == GetPlayer(s, playerId)
        others == SortByJoinedAt(SelectSeq(s.players, LAMBDA p : p.id # playerId))
    IN  IF player.isHost /\ s.hostId = playerId /\ Len(others) > 0
        THEN LET newHostId == others[1].id
                 s2 == [s EXCEPT !.players[PlayerIndex(s, newHostId)].isHost = TRUE,
                                 !.hostId = newHostId,
                                 !.players[PlayerIndex(s, playerId)].isHost = FALSE]
             IN  [session |-> s2, newHost |-> GetPlayer(s2, newHostId)]
        ELSE [session |-> s, newHost |-> Null]

\* lines 398-417: host transfer
TransferHost(s, playerId) ==
    LET player == GetPlayer(s, playerId)
        connectedPlayers ==
            SortByJoinedAt(SelectSeq(s.players,
                LAMBDA p : p.id # playerId /\ p.isConnected))
    IN  IF player.isHost /\ s.hostId = playerId /\ Len(connectedPlayers) > 0
        THEN LET newHostId == connectedPlayers[1].id
                 s2 == [s EXCEPT !.players[PlayerIndex(s, newHostId)].isHost = TRUE,
                                 !.hostId = newHostId,
                                 !.players[PlayerIndex(s, playerId)].isHost = FALSE]
             IN  [session |-> s2, newHost |-> GetPlayer(s2, newHostId)]
        ELSE [session |-> s, newHost |-> Null]

\* variant: the responses are counted against all the players
AdvanceRespondingAllPlayers(s) ==
    LET submittedByConnected ==
            SelectSeq(CurrentRound(s).responses,
                      LAMBDA r : r.playerId \in ConnectedIds(s))
    IN  IF s.phase = "responding" /\ HasCurrentRound(s)
           /\ Len(submittedByConnected) = Len(s.players)
        THEN [session |-> [s EXCEPT !.phase = "guessing"], phaseChanged |-> TRUE]
        ELSE [session |-> s, phaseChanged |-> FALSE]

\* variant: the move to guessing is reported again while the round is guessing
AdvanceRespondingAlsoInGuessing(s) ==
    LET connectedPlayerCount == Len(ConnectedPlayers(s))
        submittedByConnected ==
            SelectSeq(CurrentRound(s).responses,
                      LAMBDA r : r.playerId \in ConnectedIds(s))
    IN  IF s.phase \in {"responding", "guessing"} /\ HasCurrentRound(s)
           /\ Len(submittedByConnected) = connectedPlayerCount
        THEN [session |-> [s EXCEPT !.phase = "guessing"], phaseChanged |-> TRUE]
        ELSE [session |-> s, phaseChanged |-> FALSE]

\* lines 427-437: responding -> guessing when every connected player responded
AdvanceResponding(s) ==
    LET connectedPlayerCount == Len(ConnectedPlayers(s))
        submittedByConnected ==
            SelectSeq(CurrentRound(s).responses,
                      LAMBDA r : r.playerId \in ConnectedIds(s))
    IN  IF s.phase = "responding" /\ HasCurrentRound(s)
           /\ Len(submittedByConnected) = connectedPlayerCount
        THEN [session |-> [s EXCEPT !.phase = "guessing"], phaseChanged |-> TRUE]
        ELSE [session |-> s, phaseChanged |-> FALSE]

\* variant: the results are computed again when the round is already revealed
AdvanceGuessingAlsoInReveal(s) ==
    LET connectedPlayerCount == Len(SelectSeq(s.players, LAMBDA p : p.isConnected))
        connectedIds == {s.players[i].id :
                            i \in {j \in DOMAIN s.players : s.players[j].isConnected}}
        guessedByConnected ==
            {pid \in DOMAIN CurrentRound(s).guesses : pid \in connectedIds}
    IN  IF s.phase \in {"guessing", "reveal"} /\ HasCurrentRound(s)
           /\ Cardinality(guessedByConnected) = connectedPlayerCount
        THEN [session |-> [SetRound(s, [CurrentRound(s) EXCEPT
                                !.results = calculateResults(s, CurrentRound(s))])
                            EXCEPT !.phase = "reveal"],
              phaseChanged |-> TRUE]
        ELSE [session |-> s, phaseChanged |-> FALSE]

\* variant: the guesses are not counted
AdvanceGuessingWithoutGuesses(s) ==
    IF s.phase = "guessing" /\ HasCurrentRound(s)
    THEN [session |-> [SetRound(s, [CurrentRound(s) EXCEPT
                            !.results = calculateResults(s, CurrentRound(s))])
                        EXCEPT !.phase = "reveal"],
          phaseChanged |-> TRUE]
    ELSE [session |-> s, phaseChanged |-> FALSE]

\* lines 439-451: guessing -> reveal when every connected player guessed
AdvanceGuessing(s) ==
    LET connectedPlayerCount == Len(ConnectedPlayers(s))
        guessedByConnected ==
            {pid \in DOMAIN CurrentRound(s).guesses : pid \in ConnectedIds(s)}
    IN  IF s.phase = "guessing" /\ HasCurrentRound(s)
           /\ Cardinality(guessedByConnected) = connectedPlayerCount
        THEN [session |-> [SetRound(s, [CurrentRound(s) EXCEPT
                                !.results = calculateResults(s, CurrentRound(s))])
                            EXCEPT !.phase = "reveal"],
              phaseChanged |-> TRUE]
        ELSE [session |-> s, phaseChanged |-> FALSE]

\* variant: the response of the player who leaves is taken out of the round
handlePlayerDisconnectDropsResponse(g, playerId) ==
    IF g = Null THEN Fail(g, "Game not found")
    ELSE IF ~HasPlayer(g, playerId) THEN Fail(g, "Player not found")
    ELSE
        LET s0 == [g EXCEPT !.players[PlayerIndex(g, playerId)].isConnected = FALSE]
            s1 == IF HasCurrentRound(s0)
                  THEN SetRound(s0, [CurrentRound(s0) EXCEPT !.responses =
                            SelectSeq(@, LAMBDA r : r.playerId # playerId)])
                  ELSE s0
            host == TransferHost(s1, playerId)
            s2 == host.session
        IN  IF Len(ConnectedPlayers(s2)) > 0
            THEN LET r == AdvanceResponding(s2)
                     q == AdvanceGuessing(r.session)
                 IN  [Ok(q.session) EXCEPT
                        !.newHost = host.newHost,
                        !.phaseChanged = r.phaseChanged \/ q.phaseChanged]
            ELSE [Ok(s2) EXCEPT !.newHost = host.newHost]

handlePlayerDisconnect(g, playerId) ==
    IF g = Null THEN Fail(g, "Game not found")
    ELSE IF ~HasPlayer(g, playerId) THEN Fail(g, "Player not found")
    ELSE
        LET s1 == [g EXCEPT !.players[PlayerIndex(g, playerId)].isConnected = FALSE]
            host == TransferHost(s1, playerId)
            s2 == host.session
        IN  IF Len(ConnectedPlayers(s2)) > 0
            THEN LET r == AdvanceResponding(s2)
                     q == AdvanceGuessing(r.session)
                 IN  [Ok(q.session) EXCEPT
                        !.newHost = host.newHost,
                        !.phaseChanged = r.phaseChanged \/ q.phaseChanged]
            ELSE [Ok(s2) EXCEPT !.newHost = host.newHost]

(***************************************************************************)
(* GameStateManager.shuffleArray / getShuffledResponses                    *)
(* js[i] is the index Math.floor(Math.random() * (i + 1)) drawn at step i  *)
(***************************************************************************)
\* variant: the element is copied over, not exchanged
SwapOverwrites(seq, a, b) == [seq EXCEPT ![a] = seq[b]]

Swap(seq, a, b) == [seq EXCEPT ![a] = seq[b], ![b] = seq[a]]

RECURSIVE ShuffleFrom(_, _, _)
ShuffleFrom(shuffled, i, js) ==
    IF i > 0 THEN ShuffleFrom(Swap(shuffled, i + 1, js[i] + 1), i - 1, js)
    ELSE shuffled

shuffleArray(array, js) == ShuffleFrom(array, Len(array) - 1, js)

ShuffleDraws(n) == {js \in [1..(n - 1) -> 0..(n - 1)] : \A i \in 1..(n - 1) : js[i] <= i}

getShuffledResponses(round, js) == shuffleArray(round.responses, js)

(***************************************************************************)
(* lib/redis.ts                                                            *)
(***************************************************************************)
MaxAttempts == 10

getGame(st, code) == st[code]

\* the loop of createGame over the codes generateGameCode() draws
RECURSIVE UniqueCodeLoop(_, _, _)
UniqueCodeLoop(st, draws, attempts) ==
    IF attempts < MaxAttempts
    THEN IF st[draws[attempts + 1]] = Null
         THEN [code |-> draws[attempts + 1], attempts |-> attempts]
         ELSE UniqueCodeLoop(st, draws, attempts + 1)
    ELSE [code |-> draws[attempts + 1], attempts |-> attempts]

createGameInRedis(st, hostNickname, draws, hostId, at) ==
    LET found == UniqueCodeLoop(st, draws, 0)
    IN  IF found.attempts = MaxAttempts
        THEN [error |-> "Failed to generate unique game code", store |-> st, code |-> NoCode]
        ELSE [error |-> NoError,
              store |-> [st EXCEPT ![found.code] =
                            GameSession(found.code, hostId,
                                        Player(hostId, hostNickname, TRUE, at))],
              code |-> found.code]

\* GameStateManager.createGame
createGame(st, hostNickname, draws, hostId, at) ==
    IF ~validateNickname(hostNickname)
    THEN [error |-> "Invalid host nickname", store |-> st, code |-> NoCode]
    ELSE createGameInRedis(st, hostNickname, draws, hostId, at)

updateGame(st, session) ==
    IF st[session.code] = Null
    THEN [error |-> "Game <code> not found", store |-> st]
    ELSE [error |-> NoError, store |-> [st EXCEPT ![session.code] = session]]

\* variant: every key of the store is deleted
deleteGameAll(st, code) == [c \in DOMAIN st |-> Null]

deleteGame(st, code) == [st EXCEPT ![code] = Null]

(***************************************************************************)
(* serializeGameSession / deserializeGameSession.  A timestamp is held     *)
(* with its JavaScript type: a Date object or the ISO string JSON makes of *)
(* it.  The session of the manager carries joinedAt as the time alone;     *)
(* WithTypes gives the object a route holds when it calls updateGame.      *)
(***************************************************************************)
DateValue(time) == [type |-> "Date", time |-> time]
\* Date.prototype.toISOString, called by JSON.stringify on every Date
toISOString(date) == [type |-> "string", time |-> date.time]
\* JSON.stringify of a timestamp field: a string is written as it is
StringifyDate(value) == IF value.type = "Date" THEN toISOString(value) ELSE value
\* new Date(value) of an ISO string (or of a Date)
NewDate(value) == DateValue(value.time)

\* Array.from(map.entries()) of a Map held as a function, and new Map(entries)
RECURSIVE MapEntries(_)
MapEntries(map) ==
    IF DOMAIN map = {} THEN <<>>
    ELSE LET k == CHOOSE x \in DOMAIN map : \A y \in DOMAIN map : x <= y
         IN  <<(<<k, map[k]>>)>> \o MapEntries([y \in DOMAIN map \ {k} |-> map[y]])

RECURSIVE NewMap(_, _, _)
NewMap(entries, i, acc) ==
    IF i > Len(entries) THEN acc
    ELSE NewMap(entries, i + 1, MapSet(acc, entries[i][1], entries[i][2]))

\* JSON.stringify of a Player
StringifyPlayer(player) == [player EXCEPT !.joinedAt = StringifyDate(@)]

\* the session object of a request: the players are revived by getGame or
\* made by createGame / joinGame (joinedAt is a Date); the results that
\* calculateResults made in this request embed the Player objects of
\* session.players, the results read from the store are as
\* deserializeGameSession left them
WithTypes(s, sealedNow) ==
    [s EXCEPT
        !.players = [i \in DOMAIN s.players |->
                        [s.players[i] EXCEPT !.joinedAt = DateValue(@)]],
        !.rounds = [n \in DOMAIN s.rounds |->
            IF s.rounds[n].results = Null THEN s.rounds[n]
            ELSE [s.rounds[n] EXCEPT !.results.responses =
                    [i \in DOMAIN s.rounds[n].results.responses |->
                        [s.rounds[n].results.responses[i] EXCEPT
                            !.actualAuthor.joinedAt =
                                IF sealedNow /\ n = s.currentRound + 1
                                THEN DateValue(@)
                                ELSE toISOString(DateValue(@))]]]]]

serializeGameSession(session) ==
    [session EXCEPT
        !.players = [i \in DOMAIN session.players |->
                        <<session.players[i].id, StringifyPlayer(session.players[i])>>],
        !.rounds = [n \in DOMAIN session.rounds |->
            LET round == session.rounds[n]
            IN  [round EXCEPT
                    !.responses = [i \in DOMAIN round.responses |->
                                        <<round.responses[i].id, round.responses[i]>>],
                    !.guesses = [k \in DOMAIN MapEntries(round.guesses) |->
                        <<MapEntries(round.guesses)[k][1],
                          [MapEntries(round.guesses)[k][2] EXCEPT
                                !.guesses = MapEntries(@)]>>],
                    !.results =
                        IF round.results = Null THEN Null
                        ELSE [responses |->
                                \* ...round.results: JSON writes a Map as {}
                                [i \in DOMAIN round.results.responses |->
                                    [round.results.responses[i] EXCEPT
                                        !.actualAuthor = StringifyPlayer(@),
                                        !.guessedBy = <<>>]],
                              guessedBy |->
                                [i \in DOMAIN round.results.responses |->
                                    [round.results.responses[i] EXCEPT
                                        !.actualAuthor = StringifyPlayer(@),
                                        !.guessedBy = MapEntries(@)]],
                              penalties |-> MapEntries(round.results.penalties)]]]]

deserializeGameSession(parsed) ==
    [parsed EXCEPT
        !.players = [i \in DOMAIN parsed.players |->
                        [parsed.players[i][2] EXCEPT !.joinedAt = NewDate(@)]],
        !.rounds = [n \in DOMAIN parsed.rounds |->
            LET round == parsed.rounds[n]
            IN  [round EXCEPT
                    !.responses = [i \in DOMAIN round.responses |-> round.responses[i][2]],
                    !.guesses = NewMap(
                        [k \in DOMAIN round.guesses |->
                            <<round.guesses[k][1],
                              [round.guesses[k][2] EXCEPT !.guesses = NewMap(@, 1, <<>>)]>>],
                        1, <<>>),
                    !.results =
                        IF round.results = Null THEN Null
                        ELSE [responses |->
                                [i \in DOMAIN round.results.guessedBy |->
                                    [round.results.guessedBy[i] EXCEPT
                                        !.guessedBy = NewMap(@, 1, <<>>)]],
                              penalties |-> NewMap(round.results.penalties, 1, <<>>)]]]]

(***************************************************************************)
(* Payloads: lib/game-events.ts and GET /api/game/[code]                   *)
(***************************************************************************)
PlayerJoinedPayload(player, totalPlayers) ==
    [event |-> "player-joined",
     player |-> [id |-> player.id, nickname |-> player.nickname, isHost |-> player.isHost],
     playerCount |-> totalPlayers]

PlayerDisconnectedPayload(playerId, nickname, wasHost, newHost) ==
    [event |-> "player-disconnected", playerId |-> playerId, nickname |-> nickname,
     wasHost |-> wasHost,
     newHost |-> newHost]

PromptStartedPayload(prompt, roundNumber) ==
    [event |-> "prompt-started", prompt |-> prompt, roundNumber |-> roundNumber]

ResponsesReadyPayload(responses) ==
    [event |-> "responses-ready",
     responses |-> [i \in DOMAIN responses |->
                        [id |-> responses[i].id, text |-> responses[i].text]]]

ResultsView(results) ==
    [responses |-> [i \in DOMAIN results.responses |->
                        [responseId |-> results.responses[i].responseId,
                         text |-> results.responses[i].text,
                         actualAuthor |-> [id |-> results.responses[i].actualAuthor.id,
                                           nickname |-> results.responses[i].actualAuthor.nickname],
                         guessedBy |-> results.responses[i].guessedBy]],
     penalties |-> results.penalties]

ResultsReadyPayload(results) ==
    [event |-> "results-ready", results |-> ResultsView(results)]

GameEndedPayload(reason, totalRounds) ==
    [event |-> "game-ended", reason |-> reason, totalRounds |-> totalRounds]

\* variant: the author is included in every phase
ResponseViewWithAuthor(s, r) ==
    [id |-> r.id, text |-> r.text, playerId |-> r.playerId]

\* the entries of currentRoundInfo.responses
ResponseView(s, r) ==
    IF s.phase = "reveal"
    THEN [id |-> r.id, text |-> r.text, playerId |-> r.playerId]
    ELSE [id |-> r.id, text |-> r.text]

CurrentRoundInfo(s) ==
    IF Len(s.rounds) > 0
    THEN LET currentRound == CurrentRound(s)
         IN  [roundNumber |-> currentRound.roundNumber,
              prompt |-> currentRound.prompt,
              responseCount |-> Len(currentRound.responses),
              guessCount |-> Cardinality(DOMAIN currentRound.guesses),
              hasResponses |-> s.phase = "guessing" \/ s.phase = "reveal",
              responses |->
                 IF s.phase = "guessing" \/ s.phase = "reveal"
                 THEN [i \in DOMAIN currentRound.responses |->
                            ResponseView(s, currentRound.responses[i])]
                 ELSE <<>>,
              results |->
                 IF s.phase = "reveal" /\ currentRound.results # Null
                 THEN ResultsView(currentRound.results)
                 ELSE Null]
    ELSE Null

GameStatePayload(s) ==
    [event |-> "game-state", code |-> s.code, hostId |-> s.hostId,
     phase |-> s.phase, currentRound |-> s.currentRound,
     totalRounds |-> Len(s.rounds), players |-> s.players,
     currentRoundInfo |-> CurrentRoundInfo(s)]

(***************************************************************************)
(* Inputs of the requests                                                  *)
(***************************************************************************)

HostNicknames == {<<"A", "n", "n">>, <<"A", "n">>}

\* a fresh nickname for each seat of the table
SeatNicknames ==
    <<  <<"A", "n", "n">>, <<"B", "o", "b">>, <<"C", "a", "t">>, <<"b", "o", "b", "1">>,
        <<"c", "a", "t", "1">>, <<"t", "o", "n", "y">>, <<"n", "o", "a", "h">>,
        <<"i", "n", "a", "1">>, <<"q", "i", "n", "1">> >>

\* a nickname for the next seat, a taken nickname in another letter case,
\* a taken nickname padded with a blank, and nicknames that are not valid
JoinNicknames(g) ==
    {<<"a", "n", "n">>, <<"A", "n", "n", " ">>, <<"C", "y">>, <<"A", "n", "n", "!">>, <<" ", " ", " ">>}
      \cup (IF g # Null /\ Len(g.players) < Len(SeatNicknames)
            THEN {SeatNicknames[Len(g.players) + 1]} ELSE {})

TextPool == {<<>>, <<" ">>, <<" ", "h", "i", " ">>}

NoPrompt == [given |-> FALSE, text |-> <<>>]
PromptInputs ==
    {NoPrompt, [given |-> TRUE, text |-> <<" ">>], [given |-> TRUE, text |-> <<" ", "a", " ">>]}

\* the players of the session and an id that nobody has
PlayerInputs(g) == {nextId} \cup (IF g = Null THEN {} ELSE PlayerIds(g))

\* new Date() at a join: the clock has advanced since the latest join
LatestJoin(g) == g.players[Len(g.players)].joinedAt
ClockReadings(g) ==
    IF g = Null THEN {nextId} ELSE {LatestJoin(g) + 1}

\* guess maps: the true authors, every response to the first player,
\* every response to the player after its author
EmptyMap == <<>>
AuthorOf(round, rid) ==
    (CHOOSE i \in DOMAIN round.responses : round.responses[i].id = rid).playerId
Truth(round) ==
    [rid \in ResponseIds(round) |->
        round.responses[CHOOSE i \in DOMAIN round.responses : round.responses[i].id = rid].playerId]
AllToFirst(g, round) == [rid \in ResponseIds(round) |-> g.players[1].id]
NextOf(g, pid) == g.players[(PlayerIndex(g, pid) % Len(g.players)) + 1].id
AllToNext(g, round) == [rid \in ResponseIds(round) |-> NextOf(g, Truth(round)[rid])]

Restrict(f, D) == [x \in D |-> f[x]]

GuessInputs(g) ==
    IF g = Null \/ ~HasCurrentRound(g) THEN {EmptyMap}
    ELSE LET round == CurrentRound(g)
             rids == ResponseIds(round)
             truth == Truth(round)
         IN  {truth, AllToFirst(g, round), AllToNext(g, round)}
               \cup {Restrict(truth, rids \ {rid}) : rid \in rids}
               \cup {[x \in (rids \ {rid}) \cup {nextId} |->
                        IF x = nextId THEN truth[rid] ELSE truth[x]] : rid \in rids}
               \cup {[truth EXCEPT ![rid] = nextId] : rid \in rids}

(***************************************************************************)
(* Requests served one at a time: the manager's call, its updateGame and   *)
(* the broadcasts of the API route                                          *)
(***************************************************************************)
Outcome(op, code, by, error, r, payloads) ==
    [op |-> op, code |-> code, by |-> by, error |-> error,
     newHost |-> r.newHost, phaseChanged |-> r.phaseChanged,
     payloads |-> IF error = NoError THEN payloads ELSE <<>>]

\* updateGame(session) of a call that reached it
Persist(st, r) == IF r.saved THEN updateGame(st, r.session) ELSE [error |-> NoError, store |-> st]

Finish(op, code, by, r, payloads) ==
    LET u == Persist(store, r)
    IN  /\ store' = u.store
        /\ last' = Outcome(op, code, by,
                           IF r.error # NoError THEN r.error ELSE u.error, r, payloads)

NoResult == [newHost |-> Null, phaseChanged |-> FALSE]

Init ==
    /\ store = [c \in Codes |-> Null]
    /\ nextId = 1
    /\ created = 0
    /\ last = Outcome("init", NoCode, {}, NoError, NoResult, <<>>)
    /\ inflight = {}
    /\ acked = {}
    /\ started = 0
    /\ now = 0
    /\ expiry = [c \in DOMAIN store |-> 0]
    /\ rateLimitStore = <<>>
    /\ calls = <<>>

CreateGame ==
    /\ created < MaxGames
    /\ \E hostNickname \in HostNicknames, draws \in [1..(MaxAttempts + 1) -> Codes] :
        LET c == createGame(store, hostNickname, draws, nextId, nextId)
        IN  /\ store' = c.store
            /\ nextId' = IF c.error = NoError THEN nextId + 1 ELSE nextId
            /\ created' = IF c.error = NoError THEN created + 1 ELSE created
            /\ last' = Outcome("createGame", c.code, {}, c.error, NoResult, <<>>)
    /\ UNCHANGED <<inflight, acked, started, now, expiry, rateLimitStore, calls>>

JoinGame(code) ==
    LET g == getGame(store, code)
    IN  /\ (IF g = Null THEN TRUE ELSE Len(g.players) < MaxPlayers)
        /\ \E nickname \in JoinNicknames(g), at \in ClockReadings(g) :
            LET r == joinGame(g, nickname, nextId, at)
            IN  /\ Finish("joinGame", code, {}, r,
                    IF r.error = NoError
                    THEN <<PlayerJoinedPayload(r.session.players[Len(r.session.players)],
                                               Len(r.session.players))>>
                    ELSE <<>>)
                /\ nextId' = IF r.error = NoError THEN nextId + 1 ELSE nextId
        /\ UNCHANGED <<created, inflight, acked, started, now, expiry, rateLimitStore, calls>>

\* POST /api/game/[code]/response
ResponseBroadcasts(r) ==
    IF r.error = NoError /\ r.session.phase = "guessing"
    THEN {<<ResponsesReadyPayload(getShuffledResponses(CurrentRound(r.session), js))>> :
            js \in ShuffleDraws(Len(CurrentRound(r.session).responses))}
    ELSE {<<>>}

SubmitResponse(code) ==
    LET g == getGame(store, code)
    IN  /\ \E playerId \in PlayerInputs(g), responseText \in TextPool :
            LET r == submitResponse(g, playerId, responseText, nextId)
            IN  /\ \E payloads \in ResponseBroadcasts(r) :
                        Finish("submitResponse", code, {playerId}, r, payloads)
                /\ nextId' = IF r.error = NoError THEN nextId + 1 ELSE nextId
        /\ UNCHANGED <<created, inflight, acked, started, now, expiry, rateLimitStore, calls>>

\* POST /api/game/[code]/guess
GuessBroadcasts(r) ==
    IF r.error = NoError /\ r.session.phase = "reveal"
       /\ CurrentRound(r.session).results # Null
    THEN <<ResultsReadyPayload(CurrentRound(r.session).results)>>
    ELSE <<>>

SubmitGuesses(code) ==
    LET g == getGame(store, code)
    IN  /\ \E playerId \in PlayerInputs(g), guesses \in GuessInputs(g) :
            LET r == submitGuesses(g, playerId, guesses)
            IN  Finish("submitGuesses", code, {playerId}, r, GuessBroadcasts(r))
        /\ UNCHANGED <<nextId, created, inflight, acked, started, now, expiry, rateLimitStore, calls>>

\* POST /api/game/[code]/start-round
StartRound(code) ==
    LET g == getGame(store, code)
    IN  /\ (IF g = Null THEN TRUE
            ELSE Len(g.rounds) = 0
                 \/ (Len(g.rounds) < MaxRounds /\ Len(g.players) <= RematchPlayers))
        /\ \E hostId \in PlayerInputs(g), prompt \in PromptInputs, k \in RandomDraws :
            LET r == startRound(g, hostId, prompt, k)
            IN  Finish("startRound", code, {hostId}, r,
                    IF r.error = NoError
                    THEN <<PromptStartedPayload(CurrentRound(r.session).prompt,
                                                CurrentRound(r.session).roundNumber)>>
                    ELSE <<>>)
        /\ UNCHANGED <<nextId, created, inflight, acked, started, now, expiry, rateLimitStore, calls>>

\* POST /api/game/[code]/end: endGame, the broadcast, then deleteGame
EndGame(code) ==
    LET g == getGame(store, code)
    IN  /\ \E hostId \in PlayerInputs(g) :
            LET r == endGame(g, hostId)
            IN  /\ store' = IF r.error = NoError THEN deleteGame(store, code) ELSE store
                /\ last' = Outcome("endGame", code, {hostId}, r.error, r,
                                   IF r.error = NoError
                                   THEN <<GameEndedPayload("Host ended the game", Len(g.rounds))>>
                                   ELSE <<>>)
        /\ UNCHANGED <<nextId, created, inflight, acked, started, now, expiry, rateLimitStore, calls>>

\* variant: the events follow the phase the session is in, not phaseChanged
DisconnectBroadcastsByPhase(r, playerId) ==
    IF r.error # NoError THEN {<<>>}
    ELSE
        LET s == r.session
            disconnectedPlayer == GetPlayer(s, playerId)
            first == PlayerDisconnectedPayload(playerId, disconnectedPlayer.nickname,
                        disconnectedPlayer.isHost \/ r.newHost # Null, r.newHost)
        IN  IF s.phase = "guessing" /\ HasCurrentRound(s)
            THEN {<<first, ResponsesReadyPayload(getShuffledResponses(CurrentRound(s), js))>> :
                    js \in ShuffleDraws(Len(CurrentRound(s).responses))}
            ELSE IF s.phase = "reveal" /\ HasCurrentRound(s)
                    /\ CurrentRound(s).results # Null
            THEN {<<first, ResultsReadyPayload(CurrentRound(s).results)>>}
            ELSE {<<first>>}

\* POST /api/game/[code]/disconnect
DisconnectBroadcasts(r, playerId) ==
    IF r.error # NoError THEN {<<>>}
    ELSE
        LET s == r.session
            disconnectedPlayer == GetPlayer(s, playerId)
            first == PlayerDisconnectedPayload(playerId, disconnectedPlayer.nickname,
                        disconnectedPlayer.isHost \/ r.newHost # Null, r.newHost)
        IN  IF r.phaseChanged /\ s.phase = "guessing" /\ HasCurrentRound(s)
            THEN {<<first, ResponsesReadyPayload(getShuffledResponses(CurrentRound(s), js))>> :
                    js \in ShuffleDraws(Len(CurrentRound(s).responses))}
            ELSE IF r.phaseChanged /\ s.phase = "reveal" /\ HasCurrentRound(s)
                    /\ CurrentRound(s).results # Null
            THEN {<<first, ResultsReadyPayload(CurrentRound(s).results)>>}
            ELSE {<<first>>}

Disconnect(code) ==
    LET g == getGame(store, code)
    IN  /\ \E playerId \in PlayerInputs(g) :
            LET r == handlePlayerDisconnect(g, playerId)
            IN  \E payloads \in DisconnectBroadcasts(r, playerId) :
                    Finish("handlePlayerDisconnect", code, {playerId}, r, payloads)
        /\ UNCHANGED <<nextId, created, inflight, acked, started, now, expiry, rateLimitStore, calls>>

\* GET /api/game/[code]
GetState(code) ==
    LET g == getGame(store, code)
    IN  /\ last' = IF g = Null
                   THEN Outcome("getState", code, {}, "Game not found", NoResult, <<>>)
                   ELSE Outcome("getState", code, {}, NoError, NoResult,
                                <<GameStatePayload(g)>>)
        /\ UNCHANGED <<store, nextId, created, inflight, acked, started, now, expiry, rateLimitStore, calls>>

Next ==
    \/ CreateGame
    \/ \E code \in Codes : JoinGame(code)
    \/ \E code \in Codes : SubmitResponse(code)
    \/ \E code \in Codes : SubmitGuesses(code)
    \/ \E code \in Codes : StartRound(code)
    \/ \E code \in Codes : EndGame(code)
    \/ \E code \in Codes : Disconnect(code)
    \/ \E code \in Codes : GetState(code)

Spec == Init /\ [][Next]_vars

\* A client that is connected and has not answered the prompt, or has not
\* guessed, does so in the end: its accepted request is not put off forever.
\* Nothing is assumed of disconnect events or of clients that have left.
ConnectedResponse(code) ==
    /\ SubmitResponse(code)
    /\ last'.error = NoError
    /\ last'.by \subseteq ConnectedIds(store[code])

ConnectedGuesses(code) ==
    /\ SubmitGuesses(code)
    /\ last'.error = NoError
    /\ last'.by \subseteq ConnectedIds(store[code])

FairSpec ==
    /\ Spec
    /\ \A code \in Codes : WF_vars(ConnectedResponse(code))
    /\ \A code \in Codes : WF_vars(ConnectedGuesses(code))

(***************************************************************************)
(* Overlapping requests.  A request reads the session (getGame), computes  *)
(* on its own copy, and writes back in updateGame: redis.exists, then      *)
(* redis.setex.  Other requests run between these awaits.                  *)
(***************************************************************************)
\* the requests that overlap come from clients that hold a session: their
\* player ids exist and their texts are not blank
ConcNicknames(g) == {SeatNicknames[Len(g.players) + 1]}
ConcTexts == {<<"h", "i">>}

Request(op, code, by, r, pc) ==
    [op |-> op, code |-> code, by |-> by, r |-> r, pc |-> pc]

\* a request whose manager call threw answers at once; one that reached
\* updateGame waits at redis.exists
Begin(op, code, by, r) ==
    /\ Cardinality(inflight) < MaxInFlight
    /\ started < MaxRequests
    /\ started' = started + 1
    /\ IF r.error # NoError
       THEN /\ last' = Outcome(op, code, by, r.error, r, <<>>)
            /\ UNCHANGED inflight
       ELSE /\ inflight' = inflight \cup {Request(op, code, by, r, "exists")}
            /\ UNCHANGED last
    /\ UNCHANGED <<store, created, acked, now, expiry, rateLimitStore, calls>>

BeginJoin(code) ==
    LET g == getGame(store, code)
    IN  /\ g # Null
        /\ Len(g.players) < MaxPlayers
        /\ \E nickname \in ConcNicknames(g), at \in ClockReadings(g) :
            LET r == joinGame(g, nickname, nextId, at)
            IN  /\ Begin("joinGame", code, {nextId}, r)
                /\ nextId' = IF r.error = NoError THEN nextId + 1 ELSE nextId

BeginSubmitResponse(code) ==
    LET g == getGame(store, code)
    IN  /\ g # Null
        /\ \E playerId \in PlayerIds(g), responseText \in ConcTexts :
            LET r == submitResponse(g, playerId, responseText, nextId)
            IN  /\ Begin("submitResponse", code, {playerId}, r)
                /\ nextId' = IF r.error = NoError THEN nextId + 1 ELSE nextId

BeginSubmitGuesses(code) ==
    LET g == getGame(store, code)
    IN  /\ g # Null
        /\ HasCurrentRound(g)
        /\ \E playerId \in PlayerIds(g), guesses \in {Truth(CurrentRound(g))} :
            Begin("submitGuesses", code, {playerId}, submitGuesses(g, playerId, guesses))
        /\ UNCHANGED nextId

BeginStartRound(code) ==
    LET g == getGame(store, code)
    IN  /\ g # Null
        /\ Len(g.rounds) = 0
        /\ \E hostId \in PlayerIds(g), k \in RandomDraws :
            Begin("startRound", code, {hostId}, startRound(g, hostId, NoPrompt, k))
        /\ UNCHANGED nextId

BeginDisconnect(code) ==
    LET g == getGame(store, code)
    IN  /\ g # Null
        /\ \E playerId \in PlayerIds(g) :
            Begin("handlePlayerDisconnect", code, {playerId},
                  handlePlayerDisconnect(g, playerId))
        /\ UNCHANGED nextId

\* endGame returns the session; the route then broadcasts and deletes
BeginEndGame(code) ==
    LET g == getGame(store, code)
    IN  /\ g # Null
        /\ Cardinality(inflight) < MaxInFlight
        /\ started < MaxRequests
        /\ started' = started + 1
        /\ \E hostId \in PlayerIds(g) :
            LET r == endGame(g, hostId)
            IN  IF r.error # NoError
                THEN /\ last' = Outcome("endGame", code, {hostId}, r.error, r, <<>>)
                     /\ UNCHANGED inflight
                ELSE /\ inflight' = inflight \cup
                            {Request("endGame", code, {hostId}, r, "delete")}
                     /\ UNCHANGED last
        /\ UNCHANGED <<store, nextId, created, acked, now, expiry, rateLimitStore, calls>>

\* updateGame: const exists = await redis.exists(key)
UpdateExists(req) ==
    /\ req \in inflight
    /\ req.pc = "exists"
    /\ IF store[req.code] = Null
       THEN /\ inflight' = inflight \ {req}
            /\ last' = Outcome(req.op, req.code, req.by, "Game <code> not found", req.r, <<>>)
       ELSE /\ inflight' = (inflight \ {req}) \cup {[req EXCEPT !.pc = "setex"]}
            /\ UNCHANGED last
    /\ UNCHANGED <<store, nextId, created, acked, started, now, expiry, rateLimitStore, calls>>

\* what an answered request told its caller; seen is the number of entries
\* (responses of the round, players of the session) in the copy it had read
Ack(req) ==
    IF req.op = "submitResponse"
    THEN {[op |-> req.op, code |-> req.code, by |-> req.by,
           round |-> req.r.session.currentRound,
           seen |-> Len(CurrentRound(req.r.session).responses) - 1]}
    ELSE IF req.op = "joinGame"
    THEN {[op |-> req.op, code |-> req.code, by |-> req.by,
           round |-> req.r.session.currentRound,
           seen |-> Len(req.r.session.players) - 1]}
    ELSE {}

\* updateGame: pipeline.setex(key, remainingTTL, serialized), then the route answers
UpdateSetex(req) ==
    /\ req \in inflight
    /\ req.pc = "setex"
    /\ store' = [store EXCEPT ![req.code] = req.r.session]
    /\ inflight' = inflight \ {req}
    /\ last' = Outcome(req.op, req.code, req.by, NoError, req.r, <<>>)
    /\ acked' = acked \cup Ack(req)
    /\ UNCHANGED <<nextId, created, started, now, expiry, rateLimitStore, calls>>

\* POST /api/game/[code]/end: await deleteGame(code)
DeleteStep(req) ==
    /\ req \in inflight
    /\ req.pc = "delete"
    /\ store' = deleteGame(store, req.code)
    /\ inflight' = inflight \ {req}
    /\ last' = Outcome("endGame", req.code, req.by, NoError, req.r, <<>>)
    /\ UNCHANGED <<nextId, created, acked, started, now, expiry, rateLimitStore, calls>>

ConcNext ==
    \/ CreateGame
    \/ \E code \in Codes : BeginJoin(code)
    \/ \E code \in Codes : BeginSubmitResponse(code)
    \/ \E code \in Codes : BeginSubmitGuesses(code)
    \/ \E code \in Codes : BeginStartRound(code)
    \/ \E code \in Codes : BeginDisconnect(code)
    \/ \E code \in Codes : BeginEndGame(code)
    \/ \E req \in inflight : UpdateExists(req)
    \/ \E req \in inflight : UpdateSetex(req)
    \/ \E req \in inflight : DeleteStep(req)

ConcSpec == Init /\ [][ConcNext]_vars

(***************************************************************************)
(* Overlapping createGame calls.  createGame looks for a free code with    *)
(* redis.exists, builds the session, and stores it with redis.setex; other *)
(* requests run between the last exists and the setex.                     *)
(***************************************************************************)
\* createGame calls followed in all
MaxCreates == 2

CreatesOnTheirWay == {req \in inflight : req.op = "createGame"}

\* createGame up to its setex: the nickname check, the loop over the codes
\* drawn, the host and the session
BeginCreateGame ==
    /\ Cardinality(inflight) < MaxInFlight
    /\ started < MaxRequests
    /\ created + Cardinality(CreatesOnTheirWay) < MaxCreates
    /\ started' = started + 1
    /\ \E hostNickname \in HostNicknames, draws \in [1..(MaxAttempts + 1) -> Codes] :
        LET c == createGame(store, hostNickname, draws, nextId, nextId)
        IN  IF c.error # NoError
            THEN /\ last' = Outcome("createGame", c.code, {nextId}, c.error, NoResult, <<>>)
                 /\ UNCHANGED <<inflight, nextId>>
            ELSE /\ inflight' = inflight \cup
                        {Request("createGame", c.code, {nextId},
                                 Ok(c.store[c.code]), "create")}
                 /\ nextId' = nextId + 1
                 /\ UNCHANGED last
    /\ UNCHANGED <<store, created, acked, now, expiry, rateLimitStore, calls>>

\* createGame: await redis.setex(`game:${code}`, GAME_SESSION_TTL, serialized)
CreateSetex(req) ==
    /\ req \in inflight
    /\ req.pc = "create"
    /\ store' = [store EXCEPT ![req.code] = req.r.session]
    /\ created' = created + 1
    /\ inflight' = inflight \ {req}
    /\ last' = Outcome("createGame", req.code, req.by, NoError, NoResult, <<>>)
    /\ UNCHANGED <<nextId, acked, started, now, expiry, rateLimitStore, calls>>

CreateNext ==
    \/ BeginCreateGame
    \/ \E req \in inflight : CreateSetex(req)
    \/ \E code \in Codes : BeginJoin(code)
    \/ \E code \in Codes : BeginStartRound(code)
    \/ \E req \in inflight : UpdateExists(req)
    \/ \E req \in inflight : UpdateSetex(req)

CreateSpec == Init /\ [][CreateNext]_vars

(***************************************************************************)
(* The lobby: a table fills up to the cap of joinGame while players come   *)
(* and go.  Requests are served one at a time.                             *)
(***************************************************************************)
\* the joins whose new Date() may read the same millisecond as the join before
MaxTiedJoins == 1

\* a nickname for the next seat, taken nicknames in another letter case, and
\* a nickname that is too short
LobbyNicknames(g) ==
    {<<"a", "n", "n">>, <<"b", "o", "b">>, <<"C", "y">>}
      \cup (IF g # Null /\ Len(g.players) < Len(SeatNicknames)
            THEN {SeatNicknames[Len(g.players) + 1]} ELSE {})

LobbyClock(g) ==
    IF g = Null THEN {nextId}
    ELSE {LatestJoin(g) + 1}
            \cup (IF Len(g.players) >= 2 /\ Len(g.players) <= MaxTiedJoins + 1
                  THEN {LatestJoin(g)} ELSE {})

\* POST /api/game/[code]/join, with the nickname of the request kept
JoinOutcome(code, nickname, r) ==
    [op |-> "joinGame", code |-> code, by |-> {}, error |-> r.error,
     newHost |-> r.newHost, phaseChanged |-> r.phaseChanged,
     payloads |-> <<>>, nickname |-> nickname]

LobbyJoin(code) ==
    LET g == getGame(store, code)
    IN  /\ \E nickname \in LobbyNicknames(g), at \in LobbyClock(g) :
            LET r == joinGame(g, nickname, nextId, at)
                u == Persist(store, r)
            IN  /\ store' = u.store
                /\ last' = JoinOutcome(code, nickname,
                                [r EXCEPT !.error = IF r.error # NoError
                                                    THEN r.error ELSE u.error])
                /\ nextId' = IF r.error = NoError THEN nextId + 1 ELSE nextId
        /\ UNCHANGED <<created, inflight, acked, started, now, expiry, rateLimitStore, calls>>

LobbyNext ==
    \/ CreateGame
    \/ \E code \in Codes : LobbyJoin(code)
    \/ \E code \in Codes : Disconnect(code)

LobbySpec == Init /\ [][LobbyNext]_vars

(***************************************************************************)
(* Rounds of one table, started one after the other until the prompt pool  *)
(* is used up and once more.  The prompt of the request is kept.           *)
(***************************************************************************)
StartRoundOutcome(code, hostId, prompt, error, r) ==
    [op |-> "startRound", code |-> code, by |-> {hostId}, error |-> error,
     newHost |-> r.newHost, phaseChanged |-> r.phaseChanged,
     payloads |-> <<>>, prompt |-> prompt]

PromptStartRound(code) ==
    LET g == getGame(store, code)
    IN  /\ (IF g = Null THEN TRUE ELSE Len(g.rounds) <= PromptPoolSize)
        /\ \E hostId \in PlayerInputs(g), prompt \in PromptInputs, k \in RandomDraws :
            LET r == startRound(g, hostId, prompt, k)
                u == Persist(store, r)
            IN  /\ store' = u.store
                /\ last' = StartRoundOutcome(code, hostId, prompt,
                                IF r.error # NoError THEN r.error ELSE u.error, r)
        /\ UNCHANGED <<nextId, created, inflight, acked, started, now, expiry, rateLimitStore, calls>>

PromptNext ==
    \/ CreateGame
    \/ \E code \in Codes : PromptStartRound(code)
    \/ \E code \in Codes : SubmitResponse(code)
    \/ \E code \in Codes : SubmitGuesses(code)

PromptSpec == Init /\ [][PromptNext]_vars

(***************************************************************************)
(* getShuffledResponses on rounds whose responses were submitted in any    *)
(* order                                                                   *)
(***************************************************************************)
\* the responses of the rounds that are shuffled
MaxResponses == 3

\* the responses of a round in their order of submission: the ids of the
\* responses in any order
ResponseLists ==
    UNION {{arr \in [1..n -> 1..(MaxResponses + 1)] :
                \A i, j \in 1..n : i # j => arr[i] # arr[j]} : n \in 0..MaxResponses}

ShuffleInit ==
    /\ store = [c \in Codes |-> Null]
    /\ nextId = 1
    /\ created = 0
    /\ inflight = {}
    /\ acked = {}
    /\ started = 0
    /\ now = 0
    /\ expiry = [c \in DOMAIN store |-> 0]
    /\ rateLimitStore = <<>>
    /\ calls = <<>>
    /\ \E arr \in ResponseLists :
        last = [op |-> "round",
                round |-> [Round(0, PROMPTS[1]) EXCEPT !.responses =
                            [i \in DOMAIN arr |-> Response(arr[i], i, <<"h", "i">>)]],
                result |-> <<>>]

GetShuffledResponses ==
    /\ last.op = "round"
    /\ \E js \in ShuffleDraws(Len(last.round.responses)) :
            last' = [op |-> "getShuffledResponses", round |-> last.round,
                     result |-> getShuffledResponses(last.round, js)]
    /\ UNCHANGED <<store, nextId, created, inflight, acked, started, now, expiry, rateLimitStore, calls>>

ShuffleNext == GetShuffledResponses

ShuffleSpec == ShuffleInit /\ [][ShuffleNext]_vars

(***************************************************************************)
(* The lifetime of a key.  createGame stores the session with setex and    *)
(* GAME_SESSION_TTL; updateGame asks redis.exists, then redis.ttl, then    *)
(* writes with setex and the time it was told is left.  The clock moves    *)
(* between the awaits, and Redis drops a key when its time has come.       *)
(***************************************************************************)
GAME_SESSION_TTL == 86400

\* the clock is followed for this many lifetimes
MaxDays == 2

\* the clock moves by a second, or, while no request is on its way, by a
\* second less than a lifetime
ClockSteps == IF inflight = {} THEN {1, GAME_SESSION_TTL - 1} ELSE {1}

TtlCreateGame ==
    /\ created < MaxGames
    /\ \E hostNickname \in HostNicknames, draws \in [1..(MaxAttempts + 1) -> Codes] :
        LET c == createGame(store, hostNickname, draws, nextId, now)
        IN  /\ store' = c.store
            /\ expiry' = IF c.error = NoError
                         THEN [expiry EXCEPT ![c.code] = now + GAME_SESSION_TTL]
                         ELSE expiry
            /\ nextId' = IF c.error = NoError THEN nextId + 1 ELSE nextId
            /\ created' = IF c.error = NoError THEN created + 1 ELSE created
            /\ last' = Outcome("createGame", c.code, {}, c.error, NoResult, <<>>)
    /\ UNCHANGED <<inflight, acked, started, now, rateLimitStore, calls>>

\* time passes; the keys whose time has come are gone
Tick ==
    /\ started < MaxRequests
    /\ started' = started + 1
    /\ \E seconds \in ClockSteps :
        /\ now + seconds <= MaxDays * GAME_SESSION_TTL
        /\ now' = now + seconds
        /\ store' = [c \in DOMAIN store |->
                        IF expiry[c] > 0 /\ expiry[c] <= now + seconds
                        THEN Null ELSE store[c]]
        /\ expiry' = [c \in DOMAIN expiry |->
                        IF expiry[c] > 0 /\ expiry[c] <= now + seconds
                        THEN 0 ELSE expiry[c]]
    /\ UNCHANGED <<nextId, created, last, inflight, acked, rateLimitStore, calls>>

\* updateGame: const exists = await redis.exists(key)
TtlExists(req) ==
    /\ req \in inflight
    /\ req.pc = "exists"
    /\ IF store[req.code] = Null
       THEN /\ inflight' = inflight \ {req}
            /\ last' = Outcome(req.op, req.code, req.by, "Game <code> not found", req.r, <<>>)
       ELSE /\ inflight' = (inflight \ {req}) \cup {[req EXCEPT !.pc = "ttl"]}
            /\ UNCHANGED last
    /\ UNCHANGED <<store, nextId, created, acked, started, now, expiry, rateLimitStore, calls>>

\* redis.ttl(key): the seconds left, -2 when the key does not exist
RedisTtl(code) == IF store[code] = Null THEN -2 ELSE expiry[code] - now

\* updateGame: const ttl = await redis.ttl(key); remainingTTL
TtlRead(req) ==
    /\ req \in inflight
    /\ req.pc = "ttl"
    /\ LET ttl == RedisTtl(req.code)
           remainingTTL == IF ttl > 0 THEN ttl ELSE GAME_SESSION_TTL
       IN  inflight' = (inflight \ {req}) \cup
                {[op |-> req.op, code |-> req.code, by |-> req.by, r |-> req.r,
                  pc |-> "setex", remainingTTL |-> remainingTTL]}
    /\ UNCHANGED <<store, nextId, created, last, acked, started, now, expiry, rateLimitStore, calls>>

\* updateGame: pipeline.setex(key, remainingTTL, serialized)
TtlSetex(req) ==
    /\ req \in inflight
    /\ req.pc = "setex"
    /\ store' = [store EXCEPT ![req.code] = req.r.session]
    /\ expiry' = [expiry EXCEPT ![req.code] = now + req.remainingTTL]
    /\ inflight' = inflight \ {req}
    /\ last' = Outcome(req.op, req.code, req.by, NoError, req.r, <<>>)
    /\ UNCHANGED <<nextId, created, acked, started, now, rateLimitStore, calls>>

TtlNext ==
    \/ TtlCreateGame
    \/ Tick
    \/ \E code \in Codes : BeginStartRound(code)
    \/ \E code \in Codes : BeginSubmitResponse(code)
    \/ \E code \in Codes : BeginDisconnect(code)
    \/ \E req \in inflight : TtlExists(req)
    \/ \E req \in inflight : TtlRead(req)
    \/ \E req \in inflight : TtlSetex(req)

TtlSpec == Init /\ [][TtlNext]_vars

(***************************************************************************)
(* Two tables: the sessions of two game codes live side by side in the     *)
(* store, each under its key game:<code>.  Requests are served one at a    *)
(* time.                                                                   *)
(***************************************************************************)
TableCodes == {"X", "Y"}

\* the ids handed out to players and responses of both tables together
MaxIds == 4

\* generateGameCode() draws one code, or the other after a collision
CodeDraws ==
    {[n \in 1..(MaxAttempts + 1) |-> IF n = 1 THEN first ELSE second] :
        first \in TableCodes, second \in TableCodes}

TablesInit ==
    /\ store = [c \in TableCodes |-> Null]
    /\ nextId = 1
    /\ created = 0
    /\ last = Outcome("init", NoCode, {}, NoError, NoResult, <<>>)
    /\ inflight = {}
    /\ acked = {}
    /\ started = 0
    /\ now = 0
    /\ expiry = [c \in DOMAIN store |-> 0]
    /\ rateLimitStore = <<>>
    /\ calls = <<>>

TablesCreateGame ==
    /\ created < Cardinality(TableCodes)
    /\ \E hostNickname \in HostNicknames, draws \in CodeDraws :
        LET c == createGame(store, hostNickname, draws, nextId, nextId)
        IN  /\ store' = c.store
            /\ nextId' = IF c.error = NoError THEN nextId + 1 ELSE nextId
            /\ created' = IF c.error = NoError THEN created + 1 ELSE created
            /\ last' = Outcome("createGame", c.code, {}, c.error, NoResult, <<>>)
    /\ UNCHANGED <<inflight, acked, started, now, expiry, rateLimitStore, calls>>

\* ids are handed out while the bound allows
IdsLeft == nextId <= MaxIds

TablesNext ==
    \/ IdsLeft /\ TablesCreateGame
    \/ \E code \in TableCodes : IdsLeft /\ JoinGame(code)
    \/ \E code \in TableCodes : IdsLeft /\ SubmitResponse(code)
    \/ \E code \in TableCodes : IdsLeft /\ SubmitGuesses(code)
    \/ \E code \in TableCodes : IdsLeft /\ StartRound(code)
    \/ \E code \in TableCodes : IdsLeft /\ EndGame(code)
    \/ \E code \in TableCodes : IdsLeft /\ Disconnect(code)

TablesSpec == TablesInit /\ [][TablesNext]_vars

(***************************************************************************)
(* lib/rate-limit.ts.  The key of an entry is the string the template      *)
(* literal builds: the identifier, the window and the limit joined by      *)
(* colons, the numbers in decimal.  now is Date.now() in milliseconds.     *)
(***************************************************************************)
MaxCalls == 4           \* checkRateLimit is called while fewer calls were made
MaxClock == 4           \* the clock of RateSpec stops here

DigitChars == <<"0", "1", "2", "3", "4", "5", "6", "7", "8", "9">>

RECURSIVE NumberToString(_)
NumberToString(n) ==
    IF n < 10 THEN <<DigitChars[n + 1]>>
    ELSE NumberToString(n \div 10) \o <<DigitChars[(n % 10) + 1]>>

\* what getClientIdentifier returns: a header value, whatever the client sent
Identifiers == {<<"a">>, <<"a", ":", "1">>}

RateLimitConfigs ==
    {[maxRequests |-> 1, windowMs |-> 2],
     [maxRequests |-> 2, windowMs |-> 2],
     [maxRequests |-> 2, windowMs |-> 1],
     [maxRequests |-> 1, windowMs |-> 12]}

RateLimitKey(identifier, config) ==
    identifier \o <<":">> \o NumberToString(config.windowMs)
               \o <<":">> \o NumberToString(config.maxRequests)

\* a variant that starts a new window only after resetAt has passed
checkRateLimitLateReset(m, identifier, config, t) ==
    LET key == RateLimitKey(identifier, config)
        fresh == key \notin DOMAIN m \/ m[key].resetAt < t
        entry == IF fresh THEN [count |-> 0, resetAt |-> t + config.windowMs]
                 ELSE m[key]
    IN  IF entry.count >= config.maxRequests
        THEN [map |-> MapSet(m, key, entry),
              allowed |-> FALSE, remaining |-> 0, resetAt |-> entry.resetAt]
        ELSE [map |-> MapSet(m, key, [entry EXCEPT !.count = @ + 1]),
              allowed |-> TRUE,
              remaining |-> config.maxRequests - (entry.count + 1),
              resetAt |-> entry.resetAt]

\* checkRateLimit: the map it leaves and the result it returns
checkRateLimit(m, identifier, config, t) ==
    LET key == RateLimitKey(identifier, config)
        fresh == key \notin DOMAIN m \/ m[key].resetAt <= t
        entry == IF fresh THEN [count |-> 0, resetAt |-> t + config.windowMs]
                 ELSE m[key]
    IN  IF entry.count >= config.maxRequests
        THEN [map |-> MapSet(m, key, entry),
              allowed |-> FALSE, remaining |-> 0, resetAt |-> entry.resetAt]
        ELSE [map |-> MapSet(m, key, [entry EXCEPT !.count = @ + 1]),
              allowed |-> TRUE,
              remaining |-> config.maxRequests - (entry.count + 1),
              resetAt |-> entry.resetAt]

cleanupRateLimitStore(m, t) ==
    [k \in {j \in DOMAIN m : ~(m[j].resetAt <= t)} |-> m[k]]

CheckRateLimit ==
    /\ Len(calls) < MaxCalls
    /\ \E identifier \in Identifiers, config \in RateLimitConfigs :
           LET r == checkRateLimit(rateLimitStore, identifier, config, now)
           IN  /\ rateLimitStore' = r.map
               /\ calls' = Append(calls,
                     [identifier |-> identifier, config |-> config, at |-> now,
                      allowed |-> r.allowed, remaining |-> r.remaining,
                      resetAt |-> r.resetAt])
    /\ UNCHANGED <<store, nextId, created, last, inflight, acked, started, now, expiry>>

\* the timer of setInterval fires
Cleanup ==
    /\ rateLimitStore' = cleanupRateLimitStore(rateLimitStore, now)
    /\ rateLimitStore' # rateLimitStore
    /\ UNCHANGED <<store, nextId, created, last, inflight, acked, started, now, expiry, calls>>

Elapse ==
    /\ now < MaxClock
    /\ now' = now + 1
    /\ UNCHANGED <<store, nextId, created, last, inflight, acked, started, expiry, rateLimitStore, calls>>

RateNext ==
    \/ CheckRateLimit
    \/ Cleanup
    \/ Elapse

RateSpec == Init /\ [][RateNext]_vars

(***************************************************************************)
(* lib/api-client.ts: fetchWithRetry.  A call is the state of its loop:    *)
(* the attempt counter, the outcomes of the requests sent so far, and how  *)
(* it ended.  An outcome of fetch is a Response or a thrown network error, *)
(* which carries no status (status 0 stands for undefined).                *)
(***************************************************************************)
MaxRetriesTried == 3    \* calls are made with maxRetries up to this

RetryConfigs ==
    {[maxRetries |-> n, retryableStatuses |-> l] :
        n \in 0..MaxRetriesTried,
        l \in {<<408, 429, 500, 502, 503, 504>>, <<500>>}}

FetchOutcomes ==
    {[kind |-> "response", status |-> s] : s \in {200, 404, 500, 503}}
        \cup {[kind |-> "error", status |-> 0]}

isRetryable(error, retryableStatuses) ==
    IF error.status = 0 THEN TRUE
    ELSE \E i \in DOMAIN retryableStatuses : retryableStatuses[i] = error.status

\* a variant whose loop goes on after any response that is not ok
fetchWithRetryAnyStatus(call, outcome) ==
    LET sent == [call EXCEPT !.requests = Append(@, outcome)]
    IN  IF ~(call.attempt <= call.config.maxRetries)
        THEN [call EXCEPT !.pc = "thrown"]
        ELSE IF outcome.kind = "response"
                 /\ outcome.status >= 200 /\ outcome.status <= 299
        THEN [sent EXCEPT !.pc = "returned", !.result = outcome]
        ELSE IF call.attempt = call.config.maxRetries
        THEN [sent EXCEPT !.pc = "thrown", !.result = outcome]
        ELSE [sent EXCEPT !.attempt = @ + 1, !.result = outcome]

\* one turn of the loop of fetchWithRetry, given what fetch does this time
fetchWithRetry(call, outcome) ==
    LET sent == [call EXCEPT !.requests = Append(@, outcome)]
        error == [kind |-> "error", status |-> outcome.status]
    IN  IF ~(call.attempt <= call.config.maxRetries)
        THEN [call EXCEPT !.pc = "thrown"]
        ELSE IF outcome.kind = "response"
        THEN IF (outcome.status >= 200 /\ outcome.status <= 299)
                \/ ~(\E i \in DOMAIN call.config.retryableStatuses :
                        call.config.retryableStatuses[i] = outcome.status)
             THEN [sent EXCEPT !.pc = "returned", !.result = outcome]
             \* throw error, caught by the catch of the same turn
             ELSE IF call.attempt = call.config.maxRetries
             THEN [sent EXCEPT !.pc = "thrown", !.result = error]
             ELSE [sent EXCEPT !.attempt = @ + 1, !.result = error]
        ELSE IF call.attempt = call.config.maxRetries
        THEN [sent EXCEPT !.pc = "thrown", !.result = outcome]
        ELSE IF ~isRetryable(outcome, call.config.retryableStatuses)
        THEN [sent EXCEPT !.pc = "thrown", !.result = outcome]
        ELSE [sent EXCEPT !.attempt = @ + 1, !.result = outcome]

RetryInit ==
    /\ store = [c \in Codes |-> Null]
    /\ nextId = 1
    /\ created = 0
    /\ \E config \in RetryConfigs :
           last = [op |-> "fetchWithRetry", config |-> config, attempt |-> 0,
                   requests |-> <<>>, pc |-> "loop", result |-> Null]
    /\ inflight = {}
    /\ acked = {}
    /\ started = 0
    /\ now = 0
    /\ expiry = [c \in DOMAIN store |-> 0]
    /\ rateLimitStore = <<>>
    /\ calls = <<>>

Fetch ==
    /\ last.pc = "loop"
    /\ \E outcome \in FetchOutcomes : last' = fetchWithRetry(last, outcome)
    /\ UNCHANGED <<store, nextId, created, inflight, acked, started, now, expiry, rateLimitStore, calls>>

RetryNext == Fetch

\* fetch settles and sleep(delay) ends: a call in its loop takes its next turn
RetrySpec == RetryInit /\ [][RetryNext]_vars /\ WF_vars(Fetch)

(***************************************************************************)
(* Properties                                                              *)
(***************************************************************************)
Stored(code) == store[code]

AckedResponses(code, round) ==
    {a \in acked : a.op = "submitResponse" /\ a.code = code /\ a.round = round}

\* C1: when the last two outstanding responses of a round are submitted by
\* two different players in overlapping requests (both read the session
\* before either wrote), both responses are in the stored round afterwards
\* and the stored phase has moved on from responding.
C1_OverlappingResponsesKept ==
    \A code \in Codes :
        (Stored(code) # Null /\ HasCurrentRound(Stored(code))) =>
            \A a, b \in AckedResponses(code, Stored(code).currentRound) :
                (a.by # b.by /\ a.seen = b.seen
                 /\ a.seen = Len(Stored(code).players) - 2) =>
                    /\ a.by \cup b.by \subseteq Responders(CurrentRound(Stored(code)))
                    /\ Stored(code).phase # "responding"

LegalSteps ==
    {<<"lobby", "responding">>, <<"responding", "guessing">>,
     <<"guessing", "reveal">>, <<"reveal", "responding">>}

\* C2: the stored phase of a session only ever changes along
\* lobby -> responding -> guessing -> reveal -> responding, whatever the
\* interleaving of the requests.
C2_PhaseOrder ==
    [][\A code \in Codes :
        (Stored(code) # Null /\ Stored(code)' # Null) =>
            \/ Stored(code)'.phase = Stored(code).phase
            \/ <<Stored(code).phase, Stored(code)'.phase>> \in LegalSteps]_vars

ManagerOps ==
    {"joinGame", "submitResponse", "submitGuesses", "startRound", "endGame",
     "handlePlayerDisconnect"}

\* C3: a call of joinGame, submitResponse, submitGuesses, startRound, endGame
\* or handlePlayerDisconnect that fails leaves every stored session as it was.
C3_FailedCallChangesNothing ==
    [][(last'.op \in ManagerOps /\ last'.error # NoError) => store' = store]_vars

\* a submitGuesses call was refused for a guess naming an unknown player
\* while another player's guesses were already stored
C3_Witness ==
    /\ last.op = "submitGuesses"
    /\ last.error = "Invalid player ID in guess"
    /\ Stored(last.code) # Null
    /\ Stored(last.code).phase = "guessing"
    /\ Guessers(CurrentRound(Stored(last.code))) # {}
    /\ ~(last.by \subseteq Guessers(CurrentRound(Stored(last.code))))

\* the call op, made on a session in a phase outside phases, fails and
\* records nothing; it fails with phaseError when the checks that come
\* before the phase check pass, and only with one of earlier otherwise
Gated(code, op, phases, phaseError, earlier, earlierPass) ==
    (last'.op = op /\ last'.code = code /\ Stored(code) # Null) =>
        /\ last'.error = NoError => Stored(code).phase \in phases
        /\ Stored(code).phase \notin phases =>
            /\ last'.error \in earlier \cup {phaseError}
            /\ earlierPass => last'.error = phaseError
            /\ store' = store

\* C4: submitResponse succeeds only in responding, submitGuesses only in
\* guessing, startRound only in lobby or reveal, joinGame only in lobby; in
\* every other phase the call fails with its phase error and records
\* nothing.  endGame by the host is accepted in every phase.
C4_PhaseGating ==
    [][\A code \in Codes :
        /\ Gated(code, "submitResponse", {"responding"}, "Not in responding phase",
                 {"Player not found"}, last'.by \subseteq PlayerIds(Stored(code)))
        /\ Gated(code, "submitGuesses", {"guessing"}, "Not in guessing phase",
                 {"Player not found"}, last'.by \subseteq PlayerIds(Stored(code)))
        /\ Gated(code, "startRound", {"lobby", "reveal"},
                 "Cannot start round in current phase",
                 {"Only host can start rounds"}, last'.by = {Stored(code).hostId})
        /\ Gated(code, "joinGame", {"lobby"}, "Cannot join game in progress",
                 {"Invalid nickname"}, last'.error # "Invalid nickname")
        /\ (last'.op = "endGame" /\ last'.code = code /\ Stored(code) # Null
            /\ last'.by = {Stored(code).hostId}) =>
                last'.error = NoError]_vars

\* a player of the session submitted a response in the guessing phase and
\* was refused with the phase error
C4_Witness ==
    /\ last.op = "submitResponse"
    /\ last.error = "Not in responding phase"
    /\ Stored(last.code) # Null
    /\ Stored(last.code).phase = "guessing"
    /\ last.by \subseteq PlayerIds(Stored(last.code))

\* C5: after a successful submitResponse the response is recorded, and the
\* phase is guessing exactly when the number of responses of the round
\* equals the number of players of the session, connected or not; otherwise
\* it is still responding.
C5_ResponsesComplete ==
    [][\A code \in Codes :
        (last'.op = "submitResponse" /\ last'.code = code /\ last'.error = NoError) =>
            /\ Stored(code)' # Null
            /\ last'.by \subseteq Responders(CurrentRound(Stored(code)'))
            /\ Len(CurrentRound(Stored(code)').responses) =
                    Len(CurrentRound(Stored(code)).responses) + 1
            /\ Stored(code)'.phase =
                    IF Len(CurrentRound(Stored(code)').responses) =
                            Len(Stored(code)'.players)
                    THEN "guessing" ELSE "responding"]_vars

\* a response was accepted, every connected player has responded, a
\* disconnected player has not, and the phase is still responding
C5_Witness ==
    /\ last.op = "submitResponse"
    /\ last.error = NoError
    /\ Stored(last.code) # Null
    /\ Stored(last.code).phase = "responding"
    /\ ConnectedIds(Stored(last.code)) \subseteq Responders(CurrentRound(Stored(last.code)))
    /\ ConnectedIds(Stored(last.code)) # {}
    /\ ConnectedIds(Stored(last.code)) # PlayerIds(Stored(last.code))

\* the round of the session was moved to guessing by its final response,
\* and the call just made is a submitResponse by a player who had responded
SealedResponder(code) ==
    /\ last'.op = "submitResponse"
    /\ last'.code = code
    /\ Stored(code) # Null
    /\ Stored(code).phase = "guessing"
    /\ HasCurrentRound(Stored(code))
    /\ Len(CurrentRound(Stored(code)).responses) = Len(Stored(code).players)
    /\ last'.by \subseteq Responders(CurrentRound(Stored(code)))

\* C6 as stated: after the final response moved the phase to guessing, a
\* further submitResponse by a player who already responded fails with
\* 'Response already submitted' and does not alter the phase.
C6_AsStated ==
    [][\A code \in Codes :
        SealedResponder(code) =>
            /\ last'.error = "Response already submitted"
            /\ Stored(code)' # Null
            /\ Stored(code)'.phase = "guessing"]_vars

\* C6: after the final response moved the phase to guessing, a further
\* submitResponse by a player who already responded fails with the phase
\* error 'Not in responding phase' and does not alter the phase or the round.
C6_RefusedByPhase ==
    [][\A code \in Codes :
        SealedResponder(code) =>
            /\ last'.error = "Not in responding phase"
            /\ Stored(code)' = Stored(code)]_vars

\* a player who had responded submitted again after the round was sealed
C6_Witness ==
    /\ last.op = "submitResponse"
    /\ last.error # NoError
    /\ Stored(last.code) # Null
    /\ Stored(last.code).phase = "guessing"
    /\ Len(CurrentRound(Stored(last.code)).responses) = Len(Stored(last.code).players)
    /\ last.by # {}
    /\ last.by \subseteq Responders(CurrentRound(Stored(last.code)))

\* C7: after a successful submitGuesses the guesses are recorded; when the
\* number of players who have guessed equals the number of players of the
\* session the results of the round are computed and the phase is reveal,
\* otherwise the phase is still guessing and the round has no results.
C7_GuessesComplete ==
    [][\A code \in Codes :
        (last'.op = "submitGuesses" /\ last'.code = code /\ last'.error = NoError) =>
            /\ Stored(code)' # Null
            /\ Guessers(CurrentRound(Stored(code)')) =
                    Guessers(CurrentRound(Stored(code))) \cup last'.by
            /\ IF Cardinality(Guessers(CurrentRound(Stored(code)'))) =
                        Len(Stored(code)'.players)
               THEN /\ Stored(code)'.phase = "reveal"
                    /\ CurrentRound(Stored(code)').results # Null
               ELSE /\ Stored(code)'.phase = "guessing"
                    /\ CurrentRound(Stored(code)').results = Null]_vars

\* guesses were accepted, every connected player has guessed, a
\* disconnected player has not, and the phase is still guessing
C7_Witness ==
    /\ last.op = "submitGuesses"
    /\ last.error = NoError
    /\ Stored(last.code) # Null
    /\ Stored(last.code).phase = "guessing"
    /\ ConnectedIds(Stored(last.code)) # {}
    /\ ConnectedIds(Stored(last.code)) \subseteq Guessers(CurrentRound(Stored(last.code)))
    /\ ConnectedIds(Stored(last.code)) # PlayerIds(Stored(last.code))

\* the responses of the round whose author the player guessed wrongly
WrongGuesses(round, playerId) ==
    IF playerId \in Guessers(round)
    THEN {i \in DOMAIN round.responses :
            LET map == round.guesses[playerId].guesses
            IN  /\ round.responses[i].id \in DOMAIN map
                /\ map[round.responses[i].id] # round.responses[i].playerId}
    ELSE {}

\* C8: in the results of a round, sealed by the last submitGuesses or by a
\* disconnect, the penalty of each player of the session is the number of
\* responses for which that player's guess differs from the author; a
\* player who submitted no guesses has penalty 0.
C8_Penalties ==
    \A code \in Codes :
        Stored(code) # Null =>
            \A n \in DOMAIN Stored(code).rounds :
                Stored(code).rounds[n].results # Null =>
                    /\ DOMAIN Stored(code).rounds[n].results.penalties =
                            PlayerIds(Stored(code))
                    /\ \A playerId \in PlayerIds(Stored(code)) :
                        Stored(code).rounds[n].results.penalties[playerId] =
                            Cardinality(WrongGuesses(Stored(code).rounds[n], playerId))

\* a round sealed by a disconnect: one player guessed an author wrongly,
\* another player never guessed
C8_Witness ==
    /\ last.op = "handlePlayerDisconnect"
    /\ last.phaseChanged
    /\ Stored(last.code) # Null
    /\ Stored(last.code).phase = "reveal"
    /\ \E p, q \in PlayerIds(Stored(last.code)) :
        /\ CurrentRound(Stored(last.code)).results.penalties[p] >= 1
        /\ q \notin Guessers(CurrentRound(Stored(last.code)))
        /\ CurrentRound(Stored(last.code)).results.penalties[q] = 0

\* C9: the results of the current round are absent while the phase is
\* responding or guessing, they are set by the operation that moves the
\* phase to reveal, and the results of a round, once set, never change.
C9_ResultsSetOnce ==
    [][\A code \in Codes :
        Stored(code)' # Null =>
            /\ Stored(code)'.phase \in {"responding", "guessing"} =>
                    CurrentRound(Stored(code)').results = Null
            /\ Stored(code)'.phase = "reveal" =>
                    CurrentRound(Stored(code)').results # Null
            /\ Stored(code) # Null =>
                \A n \in DOMAIN Stored(code)'.rounds :
                    IF n \in DOMAIN Stored(code).rounds
                       /\ Stored(code).rounds[n].results # Null
                    THEN Stored(code)'.rounds[n].results =
                            Stored(code).rounds[n].results
                    ELSE Stored(code)'.rounds[n].results # Null =>
                            /\ n = Stored(code)'.currentRound + 1
                            /\ n \in DOMAIN Stored(code).rounds
                            /\ Stored(code).phase = "guessing"
                            /\ Stored(code)'.phase = "reveal"]_vars

\* a round is revealed and an author of one of its responses disconnected
\* after the results were computed
C9_Witness ==
    /\ last.op = "handlePlayerDisconnect"
    /\ last.error = NoError
    /\ Stored(last.code) # Null
    /\ Stored(last.code).phase = "reveal"
    /\ \E i \in DOMAIN CurrentRound(Stored(last.code)).results.responses :
        LET entry == CurrentRound(Stored(last.code)).results.responses[i]
        IN  /\ entry.actualAuthor.isConnected
            /\ ~GetPlayer(Stored(last.code), entry.actualAuthor.id).isConnected

\* the payload names the author of a response
ExposesAuthor(payload) ==
    CASE payload.event = "game-state" ->
            /\ payload.currentRoundInfo # Null
            /\ \/ \E i \in DOMAIN payload.currentRoundInfo.responses :
                    "playerId" \in DOMAIN payload.currentRoundInfo.responses[i]
               \/ payload.currentRoundInfo.results # Null
      [] payload.event = "responses-ready" ->
            \E i \in DOMAIN payload.responses : "playerId" \in DOMAIN payload.responses[i]
      [] payload.event = "results-ready" -> TRUE
      [] OTHER -> FALSE

\* C10: while the round of a session is in responding or guessing, no
\* payload sent to the players (the game-state read, the responses-ready
\* event) carries the id of the author of a response.
C10_AuthorsHidden ==
    (last.code # NoCode /\ Stored(last.code) # Null
     /\ Stored(last.code).phase \in {"responding", "guessing"}) =>
        \A i \in DOMAIN last.payloads : ~ExposesAuthor(last.payloads[i])

\* the game state was read in the guessing phase and lists the responses
C10_Witness ==
    /\ last.op = "getState"
    /\ last.error = NoError
    /\ Stored(last.code).phase = "guessing"
    /\ Len(last.payloads) = 1
    /\ Len(last.payloads[1].currentRoundInfo.responses) >= 2

\* the nickname is written like no nickname of the session, letter case ignored
FreshNickname(s, nickname) ==
    \A i \in DOMAIN s.players :
        toLowerCase(s.players[i].nickname) # toLowerCase(nickname)

\* C12: for a session in lobby with fewer than 8 players, joinGame with a
\* valid nickname that differs, ignoring case, from every nickname of the
\* session adds exactly one player, leaves the existing players and the
\* host as they were, and the new player has isHost = false and
\* isConnected = true.
C12_JoinAddsOnePlayer ==
    [][\A code \in Codes :
        (/\ last'.op = "joinGame" /\ last'.code = code
         /\ Stored(code) # Null
         /\ Stored(code).phase = "lobby"
         /\ Len(Stored(code).players) < 8
         /\ validateNickname(last'.nickname)
         /\ FreshNickname(Stored(code), last'.nickname)) =>
            /\ last'.error = NoError
            /\ Stored(code)' # Null
            /\ Len(Stored(code)'.players) = Len(Stored(code).players) + 1
            /\ SubSeq(Stored(code)'.players, 1, Len(Stored(code).players)) =
                    Stored(code).players
            /\ Stored(code)'.hostId = Stored(code).hostId
            /\ LET player == Stored(code)'.players[Len(Stored(code)'.players)]
               IN  /\ ~player.isHost
                   /\ player.isConnected
                   /\ player.nickname = last'.nickname
                   /\ player.id \notin PlayerIds(Stored(code))]_vars

\* the eighth player has just joined a table where somebody had left
C12_Witness ==
    /\ last.op = "joinGame"
    /\ last.error = NoError
    /\ Stored(last.code) # Null
    /\ Len(Stored(last.code).players) = 8
    /\ Len(ConnectedPlayers(Stored(last.code))) < 8

\* C13: a session never has more than 8 players: joinGame on a session that
\* has 8 players, disconnected ones included, fails and adds nobody, and
\* the error is 'Game is full' when the nickname is valid and the session
\* is in lobby.
C13_TableCap ==
    [][\A code \in Codes :
        /\ Stored(code)' # Null => Len(Stored(code)'.players) <= 8
        /\ (/\ last'.op = "joinGame" /\ last'.code = code
            /\ Stored(code) # Null
            /\ Len(Stored(code).players) >= 8) =>
                /\ last'.error # NoError
                /\ store' = store
                /\ (validateNickname(last'.nickname) /\ Stored(code).phase = "lobby")
                        => last'.error = "Game is full"]_vars

\* a join was refused at a table of 8 of which not all are connected
C13_Witness ==
    /\ last.op = "joinGame"
    /\ last.error = "Game is full"
    /\ Stored(last.code) # Null
    /\ Len(Stored(last.code).players) = 8
    /\ Len(ConnectedPlayers(Stored(last.code))) < 8

\* C14: no two players of a session have nicknames that are equal when
\* letter case is ignored: joinGame with a nickname that matches a
\* player's nickname case-insensitively fails and adds nobody, with
\* 'Nickname already taken' when the session is in lobby and not full.
C14_NicknamesDistinct ==
    [][\A code \in Codes :
        /\ Stored(code)' # Null =>
            \A i, j \in DOMAIN Stored(code)'.players :
                i # j => toLowerCase(Stored(code)'.players[i].nickname) #
                            toLowerCase(Stored(code)'.players[j].nickname)
        /\ (/\ last'.op = "joinGame" /\ last'.code = code
            /\ Stored(code) # Null
            /\ ~FreshNickname(Stored(code), last'.nickname)) =>
                /\ last'.error # NoError
                /\ store' = store
                /\ (Stored(code).phase = "lobby" /\ Len(Stored(code).players) < 8)
                        => last'.error = "Nickname already taken"]_vars

\* a join was refused for a nickname that a player holds in another letter case
C14_Witness ==
    /\ last.op = "joinGame"
    /\ last.error = "Nickname already taken"
    /\ Stored(last.code) # Null
    /\ \A i \in DOMAIN Stored(last.code).players :
            Stored(last.code).players[i].nickname # last.nickname
    /\ \E i \in DOMAIN Stored(last.code).players :
            /\ i > 1
            /\ toLowerCase(Stored(last.code).players[i].nickname) =
                    toLowerCase(last.nickname)

\* the connected players of the session other than the host
OtherConnected(s) ==
    {i \in DOMAIN s.players : s.players[i].id # s.hostId /\ s.players[i].isConnected}

\* C18: when the host disconnects while another player is connected, the
\* connected player with the earliest joinedAt among the others becomes
\* host (isHost = true, hostId set to that player) and the player who
\* left has isHost = false.
C18_EarliestJoinerPromoted ==
    [][\A code \in Codes :
        (/\ last'.op = "handlePlayerDisconnect" /\ last'.code = code
         /\ Stored(code) # Null
         /\ last'.by = {Stored(code).hostId}
         /\ OtherConnected(Stored(code)) # {}) =>
            /\ last'.error = NoError
            /\ Stored(code)' # Null
            /\ \E i \in OtherConnected(Stored(code)) :
                /\ \A j \in OtherConnected(Stored(code)) :
                        Stored(code).players[i].joinedAt <=
                            Stored(code).players[j].joinedAt
                /\ Stored(code)'.hostId = Stored(code).players[i].id
                /\ Stored(code)'.players[i].isHost
                /\ last'.newHost # Null
                /\ last'.newHost.id = Stored(code).players[i].id
            /\ ~GetPlayer(Stored(code)', Stored(code).hostId).isHost
            /\ ~GetPlayer(Stored(code)', Stored(code).hostId).isConnected]_vars

\* a host left and the player promoted is neither the earliest joiner left
\* at the table (that one had disconnected) nor the latest connected joiner
C18_Witness ==
    /\ last.op = "handlePlayerDisconnect"
    /\ last.newHost # Null
    /\ Stored(last.code) # Null
    /\ \E i, j \in DOMAIN Stored(last.code).players :
        /\ ~Stored(last.code).players[i].isHost
        /\ ~Stored(last.code).players[i].isConnected
        /\ last.by # {Stored(last.code).players[i].id}
        /\ Stored(last.code).players[i].joinedAt < last.newHost.joinedAt
        /\ Stored(last.code).players[j].isConnected
        /\ Stored(last.code).players[j].joinedAt > last.newHost.joinedAt

\* C19: in every state of a session exactly one player has isHost = true,
\* and that player is the one whose id is hostId.
C19_OneHost ==
    \A code \in Codes :
        Stored(code) # Null =>
            /\ Cardinality({i \in DOMAIN Stored(code).players :
                                Stored(code).players[i].isHost}) = 1
            /\ HasPlayer(Stored(code), Stored(code).hostId)
            /\ GetPlayer(Stored(code), Stored(code).hostId).isHost

\* the host flag has moved twice: the host is neither the creator of the
\* session nor the first player promoted
C19_Witness ==
    /\ last.op = "handlePlayerDisconnect"
    /\ last.newHost # Null
    /\ Stored(last.code) # Null
    /\ Len(Stored(last.code).players) >= 3
    /\ \E i \in DOMAIN Stored(last.code).players :
        /\ i > 1
        /\ Stored(last.code).players[i].id # Stored(last.code).hostId
        /\ ~Stored(last.code).players[i].isConnected
        /\ last.by = {Stored(last.code).players[i].id}
    /\ ~Stored(last.code).players[1].isConnected

\* C20: whenever a player of the session is connected, hostId is the id of
\* a connected player; the host is disconnected only when nobody is
\* connected.
C20_HostConnected ==
    \A code \in Codes :
        (Stored(code) # Null /\ ConnectedIds(Stored(code)) # {}) =>
            Stored(code).hostId \in ConnectedIds(Stored(code))

\* the arrangements of the elements of a list
Orderings(arr) ==
    {[i \in DOMAIN arr |-> arr[f[i]]] :
        f \in {h \in [DOMAIN arr -> DOMAIN arr] :
                    \A i, j \in DOMAIN arr : i # j => h[i] # h[j]}}

\* C11: getShuffledResponses returns a permutation of the responses of the
\* round: the result holds exactly the response ids of the round, each once;
\* the round is as it was; and every ordering of the responses is a possible
\* result, whatever the order of submission.
C11_ShuffleIsPermutation ==
    last.op = "getShuffledResponses" =>
        /\ Len(last.result) = Len(last.round.responses)
        /\ {last.result[i].id : i \in DOMAIN last.result} = ResponseIds(last.round)
        /\ \A i, j \in DOMAIN last.result :
                i # j => last.result[i].id # last.result[j].id
        /\ {last.result[i] : i \in DOMAIN last.result} =
                {last.round.responses[i] : i \in DOMAIN last.round.responses}
        /\ Len(last.round.guesses) = 0 /\ last.round.results = Null
        /\ \A ordering \in Orderings(last.round.responses) :
                \E js \in ShuffleDraws(Len(last.round.responses)) :
                    getShuffledResponses(last.round, js) = ordering

\* three responses came back rotated: second, third, first
C11_Witness ==
    /\ last.op = "getShuffledResponses"
    /\ Len(last.result) = 3
    /\ last.result[1] = last.round.responses[2]
    /\ last.result[2] = last.round.responses[3]
    /\ last.result[3] = last.round.responses[1]
    /\ last.round.responses[1].id > last.round.responses[2].id

NotHostError(op) ==
    IF op = "startRound" THEN "Only host can start rounds" ELSE "Only host can end game"

\* C15: startRound and endGame succeed only for the caller whose id is the
\* hostId of the session; any other caller is refused with the not-host
\* error, also the former host after a failover, and the current host, also
\* a promoted one, is not refused as a non-host.
C15_HostOnly ==
    [][\A code \in Codes :
        (/\ last'.op \in {"startRound", "endGame"} /\ last'.code = code
         /\ Stored(code) # Null) =>
            IF last'.by = {Stored(code).hostId}
            THEN /\ last'.error # NotHostError(last'.op)
                 /\ last'.op = "endGame" => last'.error = NoError
                 /\ (last'.op = "startRound" /\ Stored(code).phase \in {"lobby", "reveal"})
                        => last'.error = NoError
            ELSE /\ last'.error = NotHostError(last'.op)
                 /\ store' = store]_vars

\* after a failover the player who created the session tried to start a
\* round and was refused
C15_Witness ==
    /\ last.op = "startRound"
    /\ last.error = "Only host can start rounds"
    /\ Stored(last.code) # Null
    /\ last.by = {Stored(last.code).players[1].id}
    /\ Stored(last.code).hostId # Stored(last.code).players[1].id
    /\ GetPlayer(Stored(last.code), Stored(last.code).hostId).isHost

\* C16: rounds[i].roundNumber is i for every round and currentRound is the
\* index of the last round whenever a round exists; startRound appends one
\* round with no responses and no guesses and leaves the earlier rounds as
\* they were; no other operation adds or removes a round.
C16_RoundsAppendOnly ==
    [][\A code \in Codes :
        Stored(code)' # Null =>
            /\ \A n \in DOMAIN Stored(code)'.rounds :
                    Stored(code)'.rounds[n].roundNumber = n - 1
            /\ Len(Stored(code)'.rounds) > 0 =>
                    Stored(code)'.currentRound = Len(Stored(code)'.rounds) - 1
            /\ Stored(code) # Null =>
                IF last'.op = "startRound" /\ last'.error = NoError
                THEN /\ Len(Stored(code)'.rounds) = Len(Stored(code).rounds) + 1
                     /\ SubSeq(Stored(code)'.rounds, 1, Len(Stored(code).rounds)) =
                            Stored(code).rounds
                     /\ Len(CurrentRound(Stored(code)').responses) = 0
                     /\ Guessers(CurrentRound(Stored(code)')) = {}
                     /\ CurrentRound(Stored(code)').results = Null
                ELSE Len(Stored(code)'.rounds) = Len(Stored(code).rounds)]_vars

\* a second round was started after the first one was revealed
C16_Witness ==
    /\ last.op = "startRound"
    /\ last.error = NoError
    /\ Stored(last.code) # Null
    /\ Len(Stored(last.code).rounds) = 2
    /\ Stored(last.code).rounds[1].results # Null
    /\ Len(Stored(last.code).rounds[1].responses) > 0

PromptPool == {PROMPTS[i] : i \in DOMAIN PROMPTS}

Distinct(seq) == \A i, j \in DOMAIN seq : i # j => seq[i] # seq[j]

\* the request carried no prompt, or a blank one
NoPromptSupplied(prompt) == ~prompt.given \/ Len(trim(prompt.text)) = 0

\* C17: a round started without a caller-supplied prompt gets a pool prompt,
\* one that is not in usedPrompts as long as some pool prompt is unused, so
\* that no prompt repeats while the pool lasts; when every pool prompt has
\* been used the selection still returns a pool prompt.
C17_UnusedPromptFirst ==
    [][\A code \in Codes :
        (/\ last'.op = "startRound" /\ last'.code = code /\ last'.error = NoError
         /\ Stored(code) # Null
         /\ NoPromptSupplied(last'.prompt)) =>
            LET used == {Stored(code).usedPrompts[i] : i \in DOMAIN Stored(code).usedPrompts}
                selected == CurrentRound(Stored(code)').prompt
            IN  /\ selected \in PromptPool
                /\ Stored(code)'.usedPrompts = Append(Stored(code).usedPrompts, selected)
                /\ PromptPool \ used # {} =>
                    /\ selected \notin used
                    /\ Distinct(Stored(code).usedPrompts) =>
                            Distinct(Stored(code)'.usedPrompts)]_vars

\* a round was started without a prompt after every pool prompt had been
\* drawn: the prompt is a pool prompt for the second time
C17_Witness ==
    /\ last.op = "startRound"
    /\ last.error = NoError
    /\ ~last.prompt.given
    /\ Stored(last.code) # Null
    /\ Len(Stored(last.code).usedPrompts) = PromptPoolSize + 1
    /\ PromptPool =
        {Stored(last.code).usedPrompts[i] : i \in 1..PromptPoolSize}
    /\ CurrentRound(Stored(last.code)).prompt \in PromptPool

\* the player named in the call just made
Caller == CHOOSE playerId \in last.by : TRUE

\* C21: handlePlayerDisconnect marks the named player isConnected = false
\* and removes no player, response, set of guesses or result; the players
\* of a session are never fewer than before.
C21_DisconnectRemovesNothing ==
    [][\A code \in Codes :
        (Stored(code) # Null /\ Stored(code)' # Null) =>
            /\ Len(Stored(code)'.players) >= Len(Stored(code).players)
            /\ \A i \in DOMAIN Stored(code).players :
                    Stored(code)'.players[i].id = Stored(code).players[i].id
            /\ (/\ last'.op = "handlePlayerDisconnect" /\ last'.code = code
                /\ last'.error = NoError) =>
                    /\ Len(Stored(code)'.players) = Len(Stored(code).players)
                    /\ \A i \in DOMAIN Stored(code).players :
                        /\ Stored(code)'.players[i].nickname =
                                Stored(code).players[i].nickname
                        /\ Stored(code)'.players[i].joinedAt =
                                Stored(code).players[i].joinedAt
                        /\ Stored(code)'.players[i].isConnected =
                                IF last'.by = {Stored(code).players[i].id} THEN FALSE
                                ELSE Stored(code).players[i].isConnected
                    /\ Len(Stored(code)'.rounds) = Len(Stored(code).rounds)
                    /\ \A n \in DOMAIN Stored(code).rounds :
                        /\ Stored(code)'.rounds[n].responses =
                                Stored(code).rounds[n].responses
                        /\ Stored(code)'.rounds[n].guesses =
                                Stored(code).rounds[n].guesses
                        /\ Stored(code).rounds[n].results # Null =>
                                Stored(code)'.rounds[n].results =
                                    Stored(code).rounds[n].results]_vars

\* a player who had responded and guessed left after the round was revealed
C21_Witness ==
    /\ last.op = "handlePlayerDisconnect"
    /\ last.error = NoError
    /\ Stored(last.code) # Null
    /\ Stored(last.code).phase = "reveal"
    /\ ~last.phaseChanged
    /\ last.by \subseteq Responders(CurrentRound(Stored(last.code)))
    /\ last.by \subseteq Guessers(CurrentRound(Stored(last.code)))
    /\ Len(Stored(last.code).players) >= 2

\* C22: after handlePlayerDisconnect has marked the player disconnected and
\* a player is still connected: in responding the phase becomes guessing
\* exactly when every connected player has a response in the current round;
\* in guessing the results are computed and the phase becomes reveal exactly
\* when every connected player has submitted guesses; in lobby and reveal
\* the phase stays.
C22_AdvanceOnDisconnect ==
    [][\A code \in Codes :
        (/\ last'.op = "handlePlayerDisconnect" /\ last'.code = code
         /\ last'.error = NoError
         /\ Stored(code) # Null /\ Stored(code)' # Null
         /\ ConnectedIds(Stored(code)') # {}) =>
            /\ Stored(code).phase \in {"lobby", "reveal"} =>
                    Stored(code)'.phase = Stored(code).phase
            /\ Stored(code).phase = "responding" =>
                /\ Stored(code)'.phase =
                        IF ConnectedIds(Stored(code)') \subseteq
                                Responders(CurrentRound(Stored(code)))
                        THEN "guessing" ELSE "responding"
                /\ CurrentRound(Stored(code)').results = Null
            /\ Stored(code).phase = "guessing" =>
                IF ConnectedIds(Stored(code)') \subseteq
                        Guessers(CurrentRound(Stored(code)))
                THEN /\ Stored(code)'.phase = "reveal"
                     /\ CurrentRound(Stored(code)').results # Null
                ELSE /\ Stored(code)'.phase = "guessing"
                     /\ CurrentRound(Stored(code)').results = Null
            /\ last'.phaseChanged = (Stored(code)'.phase # Stored(code).phase)]_vars

\* a player left before responding and the round moved to guessing with
\* fewer responses than players
C22_Witness ==
    /\ last.op = "handlePlayerDisconnect"
    /\ last.phaseChanged
    /\ Stored(last.code) # Null
    /\ Stored(last.code).phase = "guessing"
    /\ Len(CurrentRound(Stored(last.code)).responses) < Len(Stored(last.code).players)
    /\ ~(last.by \subseteq Responders(CurrentRound(Stored(last.code))))

\* C23: a second handlePlayerDisconnect for the same player directly after
\* the first leaves the session as the first call left it: no host change,
\* no phase change, and the call reports phaseChanged = false.
C23_DisconnectTwice ==
    (last.op = "handlePlayerDisconnect" /\ last.error = NoError
     /\ Stored(last.code) # Null) =>
        /\ handlePlayerDisconnect(Stored(last.code), Caller).error = NoError
        /\ handlePlayerDisconnect(Stored(last.code), Caller).session = Stored(last.code)
        /\ ~handlePlayerDisconnect(Stored(last.code), Caller).phaseChanged
        /\ handlePlayerDisconnect(Stored(last.code), Caller).newHost = Null

\* the first call moved the host and the phase
C23_Witness ==
    /\ last.op = "handlePlayerDisconnect"
    /\ last.error = NoError
    /\ last.phaseChanged
    /\ last.newHost # Null
    /\ Stored(last.code) # Null
    /\ Stored(last.code).phase = "reveal"

\* the last request computed the results of the current round
SealedNow(code) ==
    /\ last.code = code
    /\ last.error = NoError
    /\ Stored(code) # Null
    /\ Stored(code).phase = "reveal"
    /\ \/ last.op = "submitGuesses"
       \/ last.op = "handlePlayerDisconnect" /\ last.phaseChanged

\* the session object the last request handed to updateGame
Held(code) == WithTypes(Stored(code), SealedNow(code))

\* C24: storing a session and reading it back (serializeGameSession, then
\* deserializeGameSession) yields a session equal to the original in every
\* field and field type, the rounds, responses, guesses and results with
\* the author records embedded in the results included, with players and
\* rounds in the same order.
C24_RoundTrip ==
    \A code \in Codes :
        Stored(code) # Null =>
            deserializeGameSession(serializeGameSession(Held(code))) = Held(code)

\* new Date() in createGame: the host joined when the session was created
CreatedAt(s) == s.players[1].joinedAt

\* C25: updateGame writes the session back with the time the record has
\* left, so no update extends the lifetime of a session in the store
\* beyond the 24 hours set when it was created.  The seconds that pass
\* between the redis.ttl and the setex of an update are allowed for: at
\* most one for each step counted in started.
C25_LifetimeNotExtended ==
    \A code \in Codes :
        Stored(code) # Null =>
            expiry[code] <= CreatedAt(Stored(code)) + GAME_SESSION_TTL + started

\* C26: an operation on the session with code X (join, submit, start
\* round, disconnect, end and delete) never changes the stored record of
\* the session with another code Y.
C26_OtherSessionUntouched ==
    [][\A code \in TableCodes :
        last'.code # code => store'[code] = store[code]]_vars

\* a table was ended and deleted while the other table, with a round of its
\* own, stayed in the store
C26_Witness ==
    /\ last.op = "endGame"
    /\ last.error = NoError
    /\ store[last.code] = Null
    /\ \E code \in TableCodes :
        /\ store[code] # Null
        /\ Len(store[code].rounds) > 0

\* C27: updateGame fails with the not-found error and writes nothing when
\* the record no longer exists; the write-back of a request that overlaps
\* with the end-game deletion of the session never re-creates the record:
\* a record that is absent stays absent unless createGame stores a new one,
\* and a request that finds it absent answers 'Game <code> not found'.
C27_DeletedStaysDeleted ==
    [][\A code \in Codes :
        /\ (store[code] = Null /\ store'[code] # Null) => last'.op = "createGame"
        /\ (store[code] = Null /\ last' # last /\ last'.code = code
            /\ last'.op \in ManagerOps \ {"endGame"}) =>
                last'.error = "Game <code> not found"]_vars

\* a player has left and every player still connected has submitted
SomeoneLeft(s) == \E i \in DOMAIN s.players : ~s.players[i].isConnected

ConnectedAllResponded(code) ==
    /\ Stored(code) # Null
    /\ Stored(code).phase = "responding"
    /\ HasCurrentRound(Stored(code))
    /\ SomeoneLeft(Stored(code))
    /\ ConnectedIds(Stored(code)) # {}
    /\ ConnectedIds(Stored(code)) \subseteq Responders(CurrentRound(Stored(code)))

ConnectedAllGuessed(code) ==
    /\ Stored(code) # Null
    /\ Stored(code).phase = "guessing"
    /\ HasCurrentRound(Stored(code))
    /\ SomeoneLeft(Stored(code))
    /\ ConnectedIds(Stored(code)) # {}
    /\ ConnectedIds(Stored(code)) \subseteq Guessers(CurrentRound(Stored(code)))

\* C30: the game continues with the remaining players after a disconnect:
\* when a player has been marked disconnected during responding (or
\* guessing) and every connected player has submitted a response (or
\* guesses), the round eventually advances to guessing (or reveal), with no
\* further disconnect event needed.
C30_RoundContinues ==
    \A code \in Codes :
        /\ ConnectedAllResponded(code) ~>
                (Stored(code) = Null \/ Stored(code).phase # "responding")
        /\ ConnectedAllGuessed(code) ~>
                (Stored(code) = Null \/ Stored(code).phase # "guessing")

\* C28: in every round a player has at most one response and at most one
\* set of guesses: a second submitResponse by the player while the round is
\* in responding, or a second submitGuesses while it is in guessing, fails
\* with the already-submitted error and records nothing.
C28_OneSubmissionEach ==
    [][\A code \in Codes :
        /\ Stored(code)' # Null =>
            \A n \in DOMAIN Stored(code)'.rounds :
                /\ \A i, j \in DOMAIN Stored(code)'.rounds[n].responses :
                    i # j => Stored(code)'.rounds[n].responses[i].playerId #
                                Stored(code)'.rounds[n].responses[j].playerId
                /\ \A playerId \in Guessers(Stored(code)'.rounds[n]) :
                    Stored(code)'.rounds[n].guesses[playerId].playerId = playerId
        /\ (/\ last'.op = "submitResponse" /\ last'.code = code
            /\ Stored(code) # Null
            /\ Stored(code).phase = "responding"
            /\ last'.by \subseteq Responders(CurrentRound(Stored(code)))) =>
                /\ last'.error = "Response already submitted"
                /\ store' = store
        /\ (/\ last'.op = "submitGuesses" /\ last'.code = code
            /\ Stored(code) # Null
            /\ Stored(code).phase = "guessing"
            /\ last'.by \subseteq Guessers(CurrentRound(Stored(code)))) =>
                /\ last'.error = "Guesses already submitted"
                /\ store' = store]_vars

\* a player who had guessed submitted guesses again while the other player
\* had not guessed yet
C28_Witness ==
    /\ last.op = "submitGuesses"
    /\ last.error = "Guesses already submitted"
    /\ Stored(last.code) # Null
    /\ Stored(last.code).phase = "guessing"
    /\ last.by \subseteq Guessers(CurrentRound(Stored(last.code)))
    /\ Cardinality(Guessers(CurrentRound(Stored(last.code)))) = 1

GuessErrors ==
    {"Must guess for all responses", "Invalid response ID", "Invalid player ID in guess"}

\* C29: every stored set of guesses maps exactly the response ids of its
\* round, none missing and none unknown, each to the id of a player of the
\* session; a submitGuesses refused for its guess map stores nothing.
C29_GuessesCoverResponses ==
    [][\A code \in Codes :
        /\ Stored(code)' # Null =>
            \A n \in DOMAIN Stored(code)'.rounds :
                \A playerId \in Guessers(Stored(code)'.rounds[n]) :
                    /\ DOMAIN Stored(code)'.rounds[n].guesses[playerId].guesses =
                            ResponseIds(Stored(code)'.rounds[n])
                    /\ \A rid \in ResponseIds(Stored(code)'.rounds[n]) :
                            Stored(code)'.rounds[n].guesses[playerId].guesses[rid]
                                \in PlayerIds(Stored(code)')
        /\ (last'.op = "submitGuesses" /\ last'.error \in GuessErrors) =>
                store' = store]_vars

\* a guess map that names an id that is no response of the round was refused
C29_Witness ==
    /\ last.op = "submitGuesses"
    /\ last.error = "Invalid response ID"
    /\ Stored(last.code) # Null
    /\ Stored(last.code).phase = "guessing"
    /\ Len(CurrentRound(Stored(last.code)).responses) = 2

\* the orders in which a list of responses names their ids
IdsOf(responses) == [i \in DOMAIN responses |-> responses[i].id]

\* the orders getShuffledResponses can give the responses of a round
ShuffledOrders(round) ==
    {IdsOf(getShuffledResponses(round, js)) :
        js \in ShuffleDraws(Len(round.responses))}

\* C31: every list of the current round's responses that the server
\* exposes to players during guessing, the responses-ready event and the
\* game-state read the clients render the guessing screen from, presents
\* the responses in shuffled order and not in submission order: the orders
\* a list can have are those of getShuffledResponses.
C31_ExposedListsShuffled ==
    \A code \in Codes :
        (/\ Stored(code) # Null
         /\ Stored(code).phase = "guessing"
         /\ Len(CurrentRound(Stored(code)).responses) >= 2) =>
            /\ {IdsOf(CurrentRoundInfo(Stored(code)).responses)} =
                    ShuffledOrders(CurrentRound(Stored(code)))
            /\ \A i \in DOMAIN last.payloads :
                    last.payloads[i].event = "responses-ready" =>
                        IdsOf(last.payloads[i].responses) \in
                            ShuffledOrders(CurrentRound(Stored(code)))

\* the number of events of a kind among the broadcasts of a request
EventCount(payloads, event) ==
    Cardinality({i \in DOMAIN payloads : payloads[i].event = event})

\* C32: with requests served one at a time, the responses-ready event is
\* broadcast by exactly the request that changed the phase from responding
\* to guessing and the results-ready event by exactly the request that
\* changed it from guessing to reveal, a submission or a disconnect; no
\* other request broadcasts either event.
C32_EventsAtPhaseChange ==
    [][\A code \in Codes :
        /\ EventCount(last'.payloads, "responses-ready") =
            IF /\ Stored(code) # Null /\ Stored(code)' # Null
               /\ Stored(code).phase = "responding"
               /\ Stored(code)'.phase = "guessing"
            THEN 1 ELSE 0
        /\ EventCount(last'.payloads, "results-ready") =
            IF /\ Stored(code) # Null /\ Stored(code)' # Null
               /\ Stored(code).phase = "guessing"
               /\ Stored(code)'.phase = "reveal"
            THEN 1 ELSE 0
        /\ (EventCount(last'.payloads, "responses-ready")
                + EventCount(last'.payloads, "results-ready") > 0) =>
                last'.op \in {"submitResponse", "submitGuesses",
                              "handlePlayerDisconnect"}]_vars

\* a disconnect completed the guessing and broadcast the results
C32_Witness ==
    /\ last.op = "handlePlayerDisconnect"
    /\ last.error = NoError
    /\ EventCount(last.payloads, "results-ready") = 1
    /\ EventCount(last.payloads, "responses-ready") = 0
    /\ Stored(last.code) # Null
    /\ Stored(last.code).phase = "reveal"

AckedJoins(code) == {a \in acked : a.op = "joinGame" /\ a.code = code}

\* C33: two joinGame requests for the same lobby that overlap in time
\* (both read the same player list) and both return success are both in
\* the stored player set afterwards: no acknowledged join is lost.
C33_OverlappingJoinsKept ==
    \A code \in Codes :
        Stored(code) # Null =>
            \A a, b \in AckedJoins(code) :
                (a.by # b.by /\ a.seen = b.seen) =>
                    a.by \cup b.by \subseteq PlayerIds(Stored(code))

\* C34: createGame never overwrites an existing session: it stores the new
\* session only under a code that holds no session at the moment of the
\* write, also when two createGame calls run at the same time and draw the
\* same code.
C34_CreateNeverOverwrites ==
    [][\A code \in Codes :
        (/\ last'.op = "createGame" /\ last'.code = code
         /\ last'.error = NoError
         /\ store'[code] # store[code]) =>
            store[code] = Null]_vars

\* LobbyPhase: const minPlayers = 4
minPlayers == 4

\* C35: a round is never started in a session that has fewer than 4
\* players: startRound from lobby does not move the phase to responding
\* unless at least 4 players have joined.
C35_FourPlayersToStart ==
    [][\A code \in Codes :
        (/\ Stored(code) # Null /\ Stored(code)' # Null
         /\ Stored(code).phase = "lobby"
         /\ Stored(code)'.phase = "responding") =>
            Len(Stored(code).players) >= minPlayers]_vars

\* C38: one handlePlayerDisconnect call advances the phase by at most one
\* step: a call that moves the round from responding to guessing does not
\* also compute the results and move it to reveal.
C38_OneStepPerDisconnect ==
    [][\A code \in Codes :
        (/\ last'.op = "handlePlayerDisconnect" /\ last'.code = code
         /\ last'.error = NoError
         /\ Stored(code) # Null /\ Stored(code)' # Null) =>
            /\ \/ Stored(code)'.phase = Stored(code).phase
               \/ <<Stored(code).phase, Stored(code)'.phase>> \in
                    {<<"responding", "guessing">>, <<"guessing", "reveal">>}
            /\ Stored(code).phase = "responding" =>
                /\ Stored(code)'.phase # "reveal"
                /\ CurrentRound(Stored(code)').results = Null]_vars

\* a disconnect moved the round to guessing; nobody has guessed and there
\* are no results
C38_Witness ==
    /\ last.op = "handlePlayerDisconnect"
    /\ last.error = NoError
    /\ last.phaseChanged
    /\ Stored(last.code) # Null
    /\ Stored(last.code).phase = "guessing"
    /\ Guessers(CurrentRound(Stored(last.code))) = {}
    /\ CurrentRound(Stored(last.code)).results = Null
    /\ ConnectedIds(Stored(last.code)) # {}

\* C39: once a player is marked isConnected = false no operation sets the
\* flag back to true, and a host demoted by the transfer (disconnected and
\* no longer host) never regains isHost.
C39_NoReconnect ==
    [][\A code \in Codes :
        (Stored(code) # Null /\ Stored(code)' # Null) =>
            \A i \in DOMAIN Stored(code).players :
                ~Stored(code).players[i].isConnected =>
                    /\ i \in DOMAIN Stored(code)'.players
                    /\ Stored(code)'.players[i].id = Stored(code).players[i].id
                    /\ ~Stored(code)'.players[i].isConnected
                    /\ ~Stored(code).players[i].isHost =>
                            ~Stored(code)'.players[i].isHost]_vars

\* the creator of the session lost the host role when leaving, and the
\* session was changed by a later request of the new host who then left too
C39_Witness ==
    /\ last.op = "handlePlayerDisconnect"
    /\ last.error = NoError
    /\ Stored(last.code) # Null
    /\ Len(Stored(last.code).players) = 2
    /\ ~Stored(last.code).players[1].isConnected
    /\ ~Stored(last.code).players[1].isHost
    /\ ~Stored(last.code).players[2].isConnected
    /\ Stored(last.code).players[2].isHost
    /\ last.by = {Stored(last.code).players[2].id}

\* a text that submitResponse accepts
SomeText == <<"h", "i">>

\* C40: submitResponse and submitGuesses do not look at isConnected: a
\* player marked disconnected can submit in the matching phase, the
\* submission is recorded, and it counts toward the test over all the
\* players that moves the round to the next phase.
C40_DisconnectedMaySubmit ==
    \A code \in Codes :
        (Stored(code) # Null /\ HasCurrentRound(Stored(code))) =>
            \A i \in DOMAIN Stored(code).players :
                ~Stored(code).players[i].isConnected =>
                    /\ (/\ Stored(code).phase = "responding"
                        /\ Stored(code).players[i].id \notin
                                Responders(CurrentRound(Stored(code)))) =>
                        /\ submitResponse(Stored(code), Stored(code).players[i].id,
                                          SomeText, nextId).error = NoError
                        /\ Stored(code).players[i].id \in
                            Responders(CurrentRound(
                                submitResponse(Stored(code), Stored(code).players[i].id,
                                               SomeText, nextId).session))
                        /\ (submitResponse(Stored(code), Stored(code).players[i].id,
                                           SomeText, nextId).session.phase = "guessing")
                            = (Len(CurrentRound(Stored(code)).responses) + 1
                                    = Len(Stored(code).players))
                    /\ (/\ Stored(code).phase = "guessing"
                        /\ Stored(code).players[i].id \notin
                                Guessers(CurrentRound(Stored(code)))) =>
                        /\ submitGuesses(Stored(code), Stored(code).players[i].id,
                                         Truth(CurrentRound(Stored(code)))).error = NoError
                        /\ Stored(code).players[i].id \in
                            Guessers(CurrentRound(
                                submitGuesses(Stored(code), Stored(code).players[i].id,
                                              Truth(CurrentRound(Stored(code)))).session))
                        /\ (submitGuesses(Stored(code), Stored(code).players[i].id,
                                          Truth(CurrentRound(Stored(code)))).session.phase
                                = "reveal")
                            = (Cardinality(Guessers(CurrentRound(Stored(code)))) + 1
                                    = Len(Stored(code).players))

\* the guesses of a player who had left were stored and completed the round
C40_Witness ==
    /\ last.op = "submitGuesses"
    /\ last.error = NoError
    /\ Stored(last.code) # Null
    /\ Stored(last.code).phase = "reveal"
    /\ Len(Stored(last.code).players) = 2
    /\ \E i \in DOMAIN Stored(last.code).players :
        /\ last.by = {Stored(last.code).players[i].id}
        /\ ~Stored(last.code).players[i].isConnected
        /\ Stored(last.code).players[i].id \in Guessers(CurrentRound(Stored(last.code)))

SameKey(c, d) == c.identifier = d.identifier /\ c.config = d.config

EarlierCalls(i) == {j \in 1..(i - 1) : SameKey(calls[j], calls[i])}

LatestOf(S) == CHOOSE j \in S : \A k \in S : k <= j

AllowedInWindow(i) ==
    {j \in EarlierCalls(i) : calls[j].allowed /\ calls[j].resetAt = calls[i].resetAt}

\* C36: each key (identifier, windowMs, maxRequests) is counted on its own.
\* A call with no earlier call of its key, or made at or after the resetAt
\* of the latest one, opens a window: it is allowed, reports maxRequests - 1
\* remaining and resetAt = the time of the call + windowMs.  Any other call
\* belongs to the window of the latest call of its key: it is allowed when
\* fewer than maxRequests calls of that window were allowed, and then reports
\* maxRequests minus the calls allowed so far (itself included); otherwise
\* it is denied with remaining 0.
C36_RateLimitPerKey ==
    \A i \in 1..Len(calls) :
        LET c == calls[i]
            E == EarlierCalls(i)
        IN  IF E = {} \/ (E # {} /\ c.at >= calls[LatestOf(E)].resetAt)
            THEN /\ c.allowed
                 /\ c.remaining = c.config.maxRequests - 1
                 /\ c.resetAt = c.at + c.config.windowMs
            ELSE /\ c.resetAt = calls[LatestOf(E)].resetAt
                 /\ c.allowed <=> Cardinality(AllowedInWindow(i)) < c.config.maxRequests
                 /\ c.allowed =>
                        c.remaining = c.config.maxRequests - (Cardinality(AllowedInWindow(i)) + 1)
                 /\ ~c.allowed => c.remaining = 0

\* a key is denied, another key is served meanwhile, and the first key is
\* allowed again at its resetAt
C36_Witness ==
    \E i, j, k \in 1..Len(calls) :
        /\ i < j /\ j < k
        /\ SameKey(calls[i], calls[k])
        /\ ~SameKey(calls[i], calls[j])
        /\ calls[i].identifier # calls[j].identifier
        /\ ~calls[i].allowed
        /\ calls[j].allowed
        /\ calls[k].allowed
        /\ calls[k].at = calls[i].resetAt

Retried(call, outcome) ==
    \/ outcome.kind = "error"
    \/ /\ ~(outcome.status >= 200 /\ outcome.status <= 299)
       /\ \E i \in DOMAIN call.config.retryableStatuses :
              call.config.retryableStatuses[i] = outcome.status

C37_Bounded ==
    LET n == Len(last.requests)
    IN  /\ n <= last.config.maxRetries + 1
        /\ \A i \in 1..(n - 1) : Retried(last, last.requests[i])
        /\ (n > 0 /\ ~Retried(last, last.requests[n])) =>
               (last.pc = "returned" /\ last.result = last.requests[n])
        /\ last.pc = "returned" => (n > 0 /\ ~Retried(last, last.requests[n]))
        /\ (n > 0 /\ Retried(last, last.requests[n])) =>
               (last.pc = "thrown" <=> n = last.config.maxRetries + 1)
        /\ last.pc = "thrown" => n = last.config.maxRetries + 1

\* C37: fetchWithRetry ends, having sent at most maxRetries + 1 requests.
\* Every request but the latest ended in a retryable status or a network
\* error; a response that is ok or whose status is not retryable is
\* returned at once; and the call throws exactly when maxRetries + 1
\* requests all ended in a retryable status or a network error.
C37_RetryTerminates == []C37_Bounded /\ <>(last.pc # "loop")

\* a call that threw after a retryable status and a network error
C37_Witness ==
    /\ last.pc = "thrown"
    /\ last.config.maxRetries >= 2
    /\ Len(last.requests) = last.config.maxRetries + 1
    /\ \E i, j \in DOMAIN last.requests :
           /\ last.requests[i].kind = "error"
           /\ last.requests[j].kind = "response"

====
